---------------------------- MODULE Spec2Model ----------------------------
(***************************************************************************)
(* A model of the arcosphere solver (src/src/solver.rs) over the Space     *)
(* Exploration family (src/src/space_exploration.rs), with the multiset    *)
(* algebra of src/src/model.rs.                                            *)
(*                                                                         *)
(* A Set is a function from the arcosphere indexes 0..DIMENSION-1 to the   *)
(* per-arcosphere counts.  A recipe is its index in the enumeration.       *)
(* A request (source, target, configuration) is drawn at Init; the actions *)
(* follow Solver::solve down to the rounds of FoldSearcher::solve.         *)
(***************************************************************************)
EXTENDS Integers, Sequences, FiniteSets, TLC

\* --------------------------------------------------------------------------
\* Arcospheres (space_exploration.rs, enum SeArcosphere)
\* --------------------------------------------------------------------------

DIMENSION == 8

Epsilon == 0
Gamma == 1
Lambda == 2
Omega == 3
Phi == 4
Theta == 5
Xi == 6
Zeta == 7

Arcospheres == 0 .. (DIMENSION - 1)

\* --------------------------------------------------------------------------
\* Set (model.rs, struct Set)
\* --------------------------------------------------------------------------

\* Set::new
new == [a \in Arcospheres |-> 0]

\* Set::full
full == [a \in Arcospheres |-> 1]

\* Set::insert
insert(set, sphere) == [set EXCEPT ![sphere] = @ + 1]

\* Set::from_spheres
RECURSIVE from_spheres(_)
from_spheres(spheres) ==
    IF spheres = <<>> THEN new
    ELSE insert(from_spheres(Tail(spheres)), Head(spheres))

RECURSIVE SumTo(_, _)
SumTo(set, n) == IF n < 0 THEN 0 ELSE set[n] + SumTo(set, n - 1)

\* Set::len
len(set) == SumTo(set, DIMENSION - 1)

\* Set::is_empty
is_empty(set) == len(set) = 0

\* Set::is_subset_of
is_subset_of(set, other) == \A a \in Arcospheres : set[a] <= other[a]

\* AddAssign / Add for Set
add(set, other) == [a \in Arcospheres |-> set[a] + other[a]]

\* SubAssign / Sub for Set: each count is subtracted with saturating_sub.
sub(set, other) ==
    [a \in Arcospheres |-> IF set[a] >= other[a] THEN set[a] - other[a] ELSE 0]

\* MulAssign / Mul for Set
mul(set, n) == [a \in Arcospheres |-> set[a] * n]

\* Ord for Set: the comparison of the count arrays, reversed.  SetLess(a, b)
\* is a < b in that order.
SetLess(a, b) ==
    \E k \in Arcospheres :
        /\ a[k] > b[k]
        /\ \A j \in Arcospheres : j < k => a[j] = b[j]

\* --------------------------------------------------------------------------
\* Polarity of the arcospheres and of the sets.
\* --------------------------------------------------------------------------

Negatives == {Epsilon, Lambda, Phi, Xi}

Positives == {Gamma, Omega, Theta, Zeta}

RECURSIVE CountIn(_, _, _)
CountIn(set, category, n) ==
    IF n < 0 THEN 0
    ELSE (IF n \in category THEN set[n] ELSE 0) + CountIn(set, category, n - 1)

count_negatives(set) == CountIn(set, Negatives, DIMENSION - 1)

count_positives(set) == CountIn(set, Positives, DIMENSION - 1)

\* --------------------------------------------------------------------------
\* Recipes (space_exploration.rs, enum SeArcosphereRecipe)
\* --------------------------------------------------------------------------

GOTZ == 0
ELPX == 1
EO == 2
ET == 3
LO == 4
LT == 5
PG == 6
PZ == 7
XG == 8
XZ == 9

\* The constants of SeArcosphereRecipe::input, by recipe.
InputSets ==
    (GOTZ :> from_spheres(<<Gamma, Omega, Theta, Zeta>>))
    @@ (ELPX :> from_spheres(<<Epsilon, Lambda, Phi, Xi>>))
    @@ (EO :> from_spheres(<<Epsilon, Omega>>))
    @@ (ET :> from_spheres(<<Epsilon, Theta>>))
    @@ (LO :> from_spheres(<<Lambda, Omega>>))
    @@ (LT :> from_spheres(<<Lambda, Theta>>))
    @@ (PG :> from_spheres(<<Phi, Gamma>>))
    @@ (PZ :> from_spheres(<<Phi, Zeta>>))
    @@ (XG :> from_spheres(<<Xi, Gamma>>))
    @@ (XZ :> from_spheres(<<Xi, Zeta>>))

\* SeArcosphereRecipe::input
input(recipe) == InputSets[recipe]

\* The constants of SeArcosphereRecipe::output, by recipe.
OutputSets ==
    (GOTZ :> from_spheres(<<Epsilon, Lambda, Phi, Xi>>))
    @@ (ELPX :> from_spheres(<<Gamma, Omega, Theta, Zeta>>))
    @@ (EO :> from_spheres(<<Lambda, Gamma>>))
    @@ (ET :> from_spheres(<<Phi, Omega>>))
    @@ (LO :> from_spheres(<<Xi, Theta>>))
    @@ (LT :> from_spheres(<<Epsilon, Zeta>>))
    @@ (PG :> from_spheres(<<Xi, Omega>>))
    @@ (PZ :> from_spheres(<<Epsilon, Gamma>>))
    @@ (XG :> from_spheres(<<Lambda, Zeta>>))
    @@ (XZ :> from_spheres(<<Phi, Theta>>))

\* output, were the output of a recipe its input.
output_as_input(recipe) == InputSets[recipe]

\* SeArcosphereRecipe::output
output(recipe) == OutputSets[recipe]

\* Solver::recipes: the recipe set the solver was made with.  Its foldings are
\* those of Space Exploration throughout; its inversions are those of Space
\* Exploration, or some of them only.
VARIABLE recipes

\* SeRecipeSet: the inversions of Space Exploration, in enumeration order.
SeInversions == <<GOTZ, ELPX>>

\* The recipe sets explored.
SpaceExploration == [inversions |-> SeInversions]

RecipeSets ==
    {SpaceExploration, [inversions |-> <<GOTZ>>], [inversions |-> <<ELPX>>],
     [inversions |-> <<>>]}

\* RecipeSet::inversions, in enumeration order.
inversions == recipes.inversions

\* RecipeSet::foldings, in enumeration order.
foldings == <<EO, ET, LO, LT, PG, PZ, XG, XZ>>

Range(seq) == {seq[k] : k \in DOMAIN seq}


\* --------------------------------------------------------------------------
\* The request and the state of Solver::solve
\* --------------------------------------------------------------------------

VARIABLES
    source,         \* solve: the source argument
    target,         \* solve: the target argument
    configuration,  \* Solver::configuration
    hash_order,     \* the iteration order of the FxHashSet / FxHashMap values
    pc,             \* where the solver is
    mode,           \* the caller the exploration loop returns to
    count,          \* solve_by_inversion: count
    apps,           \* solve_by_inversion: apps
    inversion,      \* solve_by_inversion: inversion
    fold_source,    \* solve_by_fold: the source argument
    fold_target,    \* solve_by_fold: the target argument
    i,              \* the number of catalysts of the exploration loop
    last_error,     \* last_error of the exploration loop
    tasks,          \* the number of tasks handed to the executor for i catalysts
    task_results,   \* what the executor returned for them so far, in order
    pending,        \* InversionSearcher::solve: pre_inversions, once known
    searcher,       \* FoldSearcher::solve: self
    forward,        \* FoldSearcher::solve: forward
    backward,       \* FoldSearcher::solve: backward
    in_forward,     \* FoldSearcher::solve: in_forward
    in_backward,    \* FoldSearcher::solve: in_backward
    iteration,      \* FoldSearcher::solve: the iterations completed
    turn,           \* FoldSearcher::solve: the direction to advance next
    search_result,  \* FoldSearcher::solve: what it returned
    fold_result,    \* what solve_by_fold returned
    outcome,        \* what solve returned
    dispatched,     \* the number of search tasks handed to the executor
    staged,         \* Verifier::verify, Planner::plan: the path given
    verified,       \* the result of Verifier::verify
    planned,        \* the result of Planner::plan
    parallelized,   \* the result of StagedPath::parallelize
    parsed,         \* the results of parsing the path given, displayed
    arithmetic,     \* the operands and the results of the operations of Set
    identified      \* the input and output given to find, and its result

vars ==
    <<recipes, source, target, configuration, hash_order, pc, mode, count, apps,
      inversion, fold_source, fold_target, i, last_error, tasks,
      task_results, pending,
      searcher, forward, backward, in_forward, in_backward, iteration, turn,
      search_result, fold_result, outcome, dispatched, staged, verified,
      planned, parallelized, parsed, arithmetic, identified>>

\* Result<Vec<Path>, ResolutionError>
Ok(paths) == [ok |-> TRUE, paths |-> paths, error |-> "None"]

Err(error) == [ok |-> FALSE, paths |-> <<>>, error |-> error]

NoResult == [ok |-> FALSE, paths |-> <<>>, error |-> "Pending"]

\* ResolutionError::is_definitive
is_definitive(error) ==
    error \in {"PreservationError", "NotWithFoldings", "NotWithInversions"}

\* const ONE
ONE == 1

\* struct Path
Path(path_source, path_target, path_count, path_catalysts, path_recipes) ==
    [source |-> path_source, target |-> path_target, count |-> path_count,
     catalysts |-> path_catalysts, recipes |-> path_recipes]

\* --------------------------------------------------------------------------
\* Iteration order of the hash sets and hash maps.  The order in which an
\* FxHashSet or the keys of an FxHashMap are visited is fixed by the hashes;
\* it is one of two opposite total orders here, drawn with the request.
\* --------------------------------------------------------------------------

HashOrders == {"ascending", "descending"}

HashBefore(a, b) ==
    IF hash_order = "ascending" THEN SetLess(a, b) ELSE SetLess(b, a)

HashFirst(sets) == CHOOSE x \in sets : \A y \in sets \ {x} : HashBefore(x, y)

RECURSIVE HashSeq(_)
HashSeq(sets) ==
    IF sets = {} THEN <<>>
    ELSE LET x == HashFirst(sets) IN <<x>> \o HashSeq(sets \ {x})

\* --------------------------------------------------------------------------
\* FoldSearcher
\* --------------------------------------------------------------------------

\* struct FoldSearcher
FoldSearcher(s_source, s_target, s_source_catalysts, s_target_catalysts) ==
    [source |-> s_source, target |-> s_target,
     source_catalysts |-> s_source_catalysts,
     target_catalysts |-> s_target_catalysts]

RECURSIVE Flatten(_)
Flatten(seqs) ==
    IF seqs = <<>> THEN <<>> ELSE Head(seqs) \o Flatten(Tail(seqs))

\* FoldSearcher::generate_catalysts_rec: the sets pushed to output, in order.
RECURSIVE generate_catalysts_rec(_, _)
generate_catalysts_rec(catalysts, number) ==
    LET generator == [k \in 1 .. DIMENSION |-> insert(catalysts, k - 1)]
    IN  IF number = 1 THEN generator
        ELSE Flatten([k \in 1 .. DIMENSION |->
                         generate_catalysts_rec(generator[k], number - 1)])

\* FoldSearcher::generate_catalysts
generate_catalysts(number) ==
    IF number = 0 THEN <<>> ELSE generate_catalysts_rec(new, number)

\* FoldSearcher::generate_searchers: one searcher per catalysts, in order.
searchers_with(s_source, s_target, catalysts) ==
    [k \in DOMAIN catalysts |->
        FoldSearcher(s_source, s_target, catalysts[k], catalysts[k])]

\* FoldSearcher::generate_searchers
generate_searchers(s_source, s_target, number_catalysts) ==
    searchers_with(s_source, s_target, generate_catalysts(number_catalysts))

\* DirectionSearcher::extract_folding of ForwardSearcher and BackwardSearcher
extract_folding(direction, folding) ==
    IF direction = "forward" THEN <<input(folding), output(folding)>>
    ELSE <<output(folding), input(folding)>>

IndexOf(seq, x) == CHOOSE k \in DOMAIN seq : seq[k] = x

\* The foldings which lead from one of inputs to result: folding leads from
\* result - to + from, which has to be one of inputs.
Producers(direction, inputs, result) ==
    {folding \in Range(foldings) :
        LET from == extract_folding(direction, folding)[1]
            to == extract_folding(direction, folding)[2]
        IN  /\ is_subset_of(to, result)
            /\ add(sub(result, to), from) \in inputs}

Origin(direction, result, folding) ==
    add(sub(result, extract_folding(direction, folding)[2]),
        extract_folding(direction, folding)[1])

\* DirectionSearcher::fold: the results of the foldings which apply to one of
\* inputs.
reached(direction, inputs) ==
    UNION {{add(sub(an_input, extract_folding(direction, folding)[1]),
                extract_folding(direction, folding)[2]) :
               folding \in {f \in Range(foldings) :
                   is_subset_of(extract_folding(direction, f)[1], an_input)}} :
           an_input \in inputs}

\* DirectionSearcher::fold: the folding inserted for result.  Each input is
\* visited in hash order and each folding in enumeration order, and a result
\* already in outputs is skipped, so the first folding to reach a result stays.
first_folding(direction, result, candidates) ==
    CHOOSE f \in candidates :
        \A g \in candidates \ {f} :
            IF Origin(direction, result, f) = Origin(direction, result, g)
            THEN IndexOf(foldings, f) < IndexOf(foldings, g)
            ELSE HashBefore(Origin(direction, result, f),
                            Origin(direction, result, g))

\* DirectionSearcher::fold: the outputs map.  A result already in inputs or
\* known is skipped.
fold(direction, known, inputs) ==
    [result \in {r \in reached(direction, inputs) :
                    r \notin inputs /\ r \notin DOMAIN known} |->
        first_folding(direction, result, Producers(direction, inputs, result))]

\* FoldSearcher::advance, after fold: the new known, inputs and outputs, and
\* whether a connection has been found.
advance_with(outputs, known, opposite_known) ==
    [known |-> outputs @@ known,
     inputs |-> DOMAIN outputs,
     outputs |-> outputs,
     found |-> \E key \in DOMAIN outputs : key \in DOMAIN opposite_known]

\* FoldSearcher::advance
advance(direction, known, inputs, opposite_known) ==
    advance_with(fold(direction, known, inputs), known, opposite_known)

\* Vec::push of a recipe, seen from the end of the walk.
prepend(folding, rest) ==
    [recipes |-> <<folding>> \o rest.recipes, step |-> rest.step,
     ends |-> rest.ends]

\* Vec::reverse of the recipes of a walk.
reversed(walked) ==
    [recipes |-> [k \in DOMAIN walked.recipes |->
                     walked.recipes[Len(walked.recipes) + 1 - k]],
     step |-> walked.step, ends |-> walked.ends]

\* FoldSearcher::stitch_forward and stitch_backward, the loop: the recipes
\* pushed while walking from step, and the step reached.  The loop runs as long
\* as step is a key of known; when it has run as often as known has keys and
\* step is a key still, a key is visited twice and the loop never ends.
RECURSIVE walk(_, _, _, _)
walk(direction, known, step, fuel) ==
    IF step \notin DOMAIN known
    THEN [recipes |-> <<>>, step |-> step, ends |-> TRUE]
    ELSE IF fuel = 0 THEN [recipes |-> <<>>, step |-> step, ends |-> FALSE]
    ELSE prepend(known[step],
                 walk(direction, known,
                      Origin(direction, step, known[step]), fuel - 1))

\* FoldSearcher::stitch_forward
stitch_forward(known, candidate) ==
    reversed(walk("forward", known, candidate, Cardinality(DOMAIN known)))

\* stitch_backward without the walk: the recipes from candidate to the target
\* are left out.
stitch_backward_without_walk(known, candidate) ==
    [recipes |-> <<>>, step |-> candidate, ends |-> TRUE]

\* FoldSearcher::stitch_backward
stitch_backward(known, candidate) ==
    walk("backward", known, candidate, Cardinality(DOMAIN known))

\* FoldSearcher::stitch, the body of the loop: the path through candidate.
stitch_one(self, before, after) ==
    [ends |-> before.ends /\ after.ends,
     path |-> Path(self.source, self.target, ONE, self.source_catalysts,
                   before.recipes \o after.recipes)]

\* FoldSearcher::stitch, the loop over the candidates which are keys of
\* forward and of backward.
stitch_all(self, known_forward, known_backward, meeting) ==
    [ends |-> \A k \in DOMAIN meeting :
                  stitch_one(self, stitch_forward(known_forward, meeting[k]),
                             stitch_backward(known_backward, meeting[k])).ends,
     paths |-> [k \in DOMAIN meeting |->
                   stitch_one(self, stitch_forward(known_forward, meeting[k]),
                              stitch_backward(known_backward, meeting[k])).path]]

\* FoldSearcher::stitch: one path per candidate which is a key of forward and
\* of backward, the candidates in the order of the keys of the outputs map.
stitch(self, known_forward, known_backward, candidates) ==
    stitch_all(self, known_forward, known_backward,
               HashSeq({c \in candidates :
                   c \in DOMAIN known_forward /\ c \in DOMAIN known_backward}))


\* --------------------------------------------------------------------------
\* InversionSearcher
\* --------------------------------------------------------------------------

\* InversionRecipe::polarity: the category of the spheres the inversion makes.
polarity(recipe) ==
    IF count_positives(output(recipe)) > count_positives(input(recipe))
    THEN "Positive" ELSE "Negative"

\* Set::negatives
negatives(set) == [a \in Arcospheres |-> IF a \in Negatives THEN set[a] ELSE 0]

\* Set::positives
positives(set) == [a \in Arcospheres |-> IF a \in Positives THEN set[a] ELSE 0]

\* IntoIterator for Set: each sphere as often as the set holds it, by index.
RECURSIVE into_iter_from(_, _)
into_iter_from(set, a) ==
    IF a >= DIMENSION THEN <<>>
    ELSE [k \in 1 .. set[a] |-> a] \o into_iter_from(set, a + 1)

into_iter(set) == into_iter_from(set, 0)

RECURSIVE gcd(_, _)
gcd(m, n) == IF n = 0 THEN m ELSE gcd(n, m % n)

\* select_inversion, were the flipped numbers not divided by their gcd.
select_inversion_without_gcd(s_source, s_target) ==
    LET wanted == IF count_negatives(s_source) > count_negatives(s_target)
                  THEN "Positive" ELSE "Negative"
        fitting == {k \in DOMAIN inversions : polarity(inversions[k]) = wanted}
        chosen == inversions[CHOOSE k \in fitting : \A j \in fitting : k <= j]
        target_flipped ==
            IF wanted = "Positive"
            THEN count_positives(s_target) - count_positives(s_source)
            ELSE count_negatives(s_target) - count_negatives(s_source)
        recipe_flipped ==
            IF wanted = "Positive"
            THEN count_positives(output(chosen)) - count_positives(input(chosen))
            ELSE count_negatives(output(chosen)) - count_negatives(input(chosen))
    IN  IF fitting = {} THEN [some |-> FALSE, count |-> ONE, inversion |-> GOTZ,
                              apps |-> ONE]
        ELSE IF target_flipped = recipe_flipped
        THEN [some |-> TRUE, count |-> ONE, inversion |-> chosen, apps |-> ONE]
        ELSE [some |-> TRUE, count |-> recipe_flipped, inversion |-> chosen,
              apps |-> target_flipped]

\* InversionSearcher::select_inversion
select_inversion(s_source, s_target) ==
    LET wanted == IF count_negatives(s_source) > count_negatives(s_target)
                  THEN "Positive" ELSE "Negative"
        fitting == {k \in DOMAIN inversions : polarity(inversions[k]) = wanted}
        chosen == inversions[CHOOSE k \in fitting : \A j \in fitting : k <= j]
        target_flipped ==
            IF wanted = "Positive"
            THEN count_positives(s_target) - count_positives(s_source)
            ELSE count_negatives(s_target) - count_negatives(s_source)
        recipe_flipped ==
            IF wanted = "Positive"
            THEN count_positives(output(chosen)) - count_positives(input(chosen))
            ELSE count_negatives(output(chosen)) - count_negatives(input(chosen))
        divisor == gcd(target_flipped, recipe_flipped)
    IN  IF fitting = {} THEN [some |-> FALSE, count |-> ONE, inversion |-> GOTZ,
                              apps |-> ONE]
        ELSE IF target_flipped = recipe_flipped
        THEN [some |-> TRUE, count |-> ONE, inversion |-> chosen, apps |-> ONE]
        ELSE [some |-> TRUE, count |-> recipe_flipped \div divisor,
              inversion |-> chosen, apps |-> target_flipped \div divisor]

\* InversionSearcher::generate_catalysts_combinations
generate_catalysts_combinations(catalysts) ==
    LET fits(pair) == count_negatives(pair[1]) = count_negatives(pair[2])
    IN  Flatten([k \in DOMAIN catalysts |->
            SelectSeq([j \in DOMAIN catalysts |-> <<catalysts[k], catalysts[j]>>],
                      fits)])

\* InversionSearcher::generate_candidate_pre_inversions_rec: the sets pushed
\* to output, in order.
RECURSIVE generate_candidate_pre_inversions_rec(_, _, _)
generate_candidate_pre_inversions_rec(seeds, current, number) ==
    LET spheres == into_iter(seeds)
        generator == [k \in DOMAIN spheres |-> insert(current, spheres[k])]
    IN  IF number = 1 THEN generator
        ELSE Flatten([k \in DOMAIN generator |->
                generate_candidate_pre_inversions_rec(seeds, generator[k],
                                                      number - 1)])

\* InversionSearcher::generate_candidate_pre_inversions, before its assertions
generate_candidate_pre_inversions(s_source, s_count, s_inversion) ==
    LET seed == input(s_inversion)
        remainder == sub(mul(s_source, s_count), seed)
        number_negatives == count_negatives(remainder)
        number_positives == count_positives(remainder)
        temporaries == generate_candidate_pre_inversions_rec(
                           negatives(full), seed, number_negatives)
    IN  IF number_negatives = 0 /\ number_positives = 0 THEN <<seed>>
        ELSE IF number_positives = 0
        THEN generate_candidate_pre_inversions_rec(negatives(full), seed,
                                                   number_negatives)
        ELSE IF number_negatives = 0
        THEN generate_candidate_pre_inversions_rec(positives(full), seed,
                                                   number_positives)
        ELSE Flatten([k \in DOMAIN temporaries |->
                generate_candidate_pre_inversions_rec(
                    positives(full), temporaries[k], number_positives)])

\* InversionSearcher::generate_candidate_pre_inversions: the assertions on the
\* lengths and polarities of the candidates.
candidates_match(s_source, s_count, s_inversion) ==
    LET whole == mul(s_source, s_count)
        result == generate_candidate_pre_inversions(s_source, s_count, s_inversion)
    IN  \A k \in DOMAIN result :
            /\ len(result[k]) = len(whole)
            /\ count_negatives(result[k]) = count_negatives(whole)
            /\ count_positives(result[k]) = count_positives(whole)

\* struct InversionSearcher
InversionSearcher(s_source, s_target, s_count, s_pre, s_inversion, s_post) ==
    [source |-> s_source, target |-> s_target, count |-> s_count, pre |-> s_pre,
     inversion |-> s_inversion, post |-> s_post]

\* InversionSearcher::generate_searchers, the closure: the searcher of a
\* combination of catalysts and of a candidate.
make_searcher(s_source, s_target, s_count, s_inversion, combination, pre_inversion) ==
    InversionSearcher(s_source, s_target, s_count,
        FoldSearcher(mul(s_source, s_count), pre_inversion, combination[1],
                     combination[2]),
        s_inversion,
        FoldSearcher(add(sub(pre_inversion, input(s_inversion)),
                         output(s_inversion)),
                     mul(s_target, s_count), combination[2], combination[1]))

\* InversionSearcher::generate_searchers, the flat_map: for each combination
\* in order, one searcher per candidate in order.
searchers_over(s_source, s_target, s_count, s_inversion, combinations, pre_inversions) ==
    [k \in 1 .. (Len(combinations) * Len(pre_inversions)) |->
        make_searcher(s_source, s_target, s_count, s_inversion,
            combinations[((k - 1) \div Len(pre_inversions)) + 1],
            pre_inversions[((k - 1) % Len(pre_inversions)) + 1])]

\* InversionSearcher::generate_searchers
generate_inversion_searchers(s_source, s_target, s_count, s_inversion, number) ==
    searchers_over(s_source, s_target, s_count, s_inversion,
        generate_catalysts_combinations(generate_catalysts(number)),
        generate_candidate_pre_inversions(s_source, s_count, s_inversion))

\* InversionSearcher::solve, once both searches have succeeded: the paths.
combine(s_searcher, pre_inversions, post_inversions) ==
    Flatten([k \in DOMAIN pre_inversions |->
        [j \in DOMAIN post_inversions |->
            Path(s_searcher.source, s_searcher.target, s_searcher.count,
                 pre_inversions[k].catalysts,
                 pre_inversions[k].recipes \o <<s_searcher.inversion>>
                     \o post_inversions[j].recipes)]])

\* --------------------------------------------------------------------------
\* The requests explored
\* --------------------------------------------------------------------------

MaxCatalysts == 2

MaxRecipes == 5

\* The SolverConfiguration values explored: the exploration of c catalysts
\* runs DIMENSION^c searches, so the deeper searches come with fewer catalysts.
Configurations ==
    {[minimum_catalysts |-> 0, maximum_catalysts |-> MaxCatalysts - 1,
      maximum_recipes |-> MaxRecipes],
     [minimum_catalysts |-> 0, maximum_catalysts |-> MaxCatalysts,
      maximum_recipes |-> MaxRecipes - 2],
     [minimum_catalysts |-> 1, maximum_catalysts |-> MaxCatalysts - 1,
      maximum_recipes |-> MaxRecipes - 1]}

\* The (source, target) pairs explored under every configuration: solve
\* searches by folding, or returns at once.
Requests ==
    {<<from_spheres(<<Epsilon, Lambda>>), from_spheres(<<Epsilon, Lambda>>)>>,
     <<from_spheres(<<Epsilon>>), from_spheres(<<Epsilon, Lambda>>)>>,
     <<from_spheres(<<Epsilon, Omega>>), from_spheres(<<Lambda, Gamma>>)>>,
     <<from_spheres(<<Epsilon, Phi>>), from_spheres(<<Lambda, Xi>>)>>,
     <<from_spheres(<<Epsilon, Phi, Zeta>>), from_spheres(<<Lambda, Xi, Zeta>>)>>,
     <<from_spheres(<<Epsilon, Omega, Xi>>), from_spheres(<<Gamma, Lambda, Xi>>)>>,
     <<from_spheres(<<Epsilon, Epsilon, Theta>>), from_spheres(<<Gamma, Lambda, Phi>>)>>,
     <<from_spheres(<<Epsilon, Gamma>>), from_spheres(<<Phi, Zeta>>)>>,
     <<from_spheres(<<Epsilon, Epsilon, Omega>>), from_spheres(<<Epsilon, Gamma, Lambda>>)>>,
     <<input(ELPX), output(ELPX)>>,
     <<input(GOTZ), output(GOTZ)>>,
     <<from_spheres(<<Epsilon, Lambda, Phi>>), from_spheres(<<Gamma, Omega, Theta>>)>>}

\* The configuration of the requests which need an inversion.
InversionConfiguration ==
    [minimum_catalysts |-> 1, maximum_catalysts |-> MaxCatalysts - 1,
     maximum_recipes |-> MaxRecipes - 1]

\* The (source, target) pairs explored under InversionConfiguration: the
\* inversion comes first, last, or in the middle; for the first pair,
\* count * source is without the input of the inversion and count * target
\* without its output.
InversionRequests ==
    {<<from_spheres(<<Epsilon, Epsilon, Epsilon, Epsilon>>),
       from_spheres(<<Gamma, Gamma, Gamma, Gamma>>)>>,
     <<from_spheres(<<Epsilon, Epsilon, Lambda, Phi, Xi>>),
       from_spheres(<<Epsilon, Gamma, Gamma, Zeta, Zeta>>)>>,
     <<from_spheres(<<Gamma, Gamma, Omega, Theta, Zeta>>),
       from_spheres(<<Epsilon, Epsilon, Gamma, Lambda, Lambda>>)>>,
     <<from_spheres(<<Epsilon, Epsilon, Lambda, Lambda, Theta>>),
       from_spheres(<<Gamma, Omega, Theta, Theta, Zeta>>)>>,
     <<from_spheres(<<Epsilon, Lambda, Phi, Xi, Xi, Zeta>>),
       from_spheres(<<Gamma, Gamma, Gamma, Omega, Phi, Zeta>>)>>}

\* The configuration of the requests which need a longer search.
LongConfiguration ==
    [minimum_catalysts |-> 1, maximum_catalysts |-> MaxCatalysts - 1,
     maximum_recipes |-> MaxRecipes + 2]

\* The (source, target) pairs explored under LongConfiguration: with the
\* catalyst Epsilon, the source lies on a cycle of 4 foldings and the target
\* is 7 foldings away.
LongRequests ==
    {<<from_spheres(<<Epsilon, Gamma, Lambda, Omega>>),
       from_spheres(<<Xi, Xi, Zeta, Zeta>>)>>}

\* --------------------------------------------------------------------------
\* Solver
\* --------------------------------------------------------------------------

request == <<recipes, source, target, configuration, hash_order>>

selection == <<count, apps, inversion>>

checking ==
    <<staged, verified, planned, parallelized, parsed, arithmetic,
      identified>>

call == <<mode, fold_source, fold_target>>

exploration == <<i, last_error, tasks, task_results, pending>>

search ==
    <<searcher, forward, backward, in_forward, in_backward, iteration, turn,
      search_result>>

\* Result<(), VerificationError>, before verify is called.
NotVerified == [error |-> "Pending", index |-> 0, set |-> new]

\* Result<Recipe, RecipeIdentifyError>: no recipe is looked for on its own.
NotIdentified ==
    [input |-> new, output |-> new, found |-> [ok |-> FALSE, recipe |-> GOTZ]]

\* The result of an operation of Set: a panic, or the set.
Computed(panic, set) == [panic |-> panic, set |-> set]

\* No operation of Set is called on its own.
NotComputed ==
    [a |-> new, b |-> new, k |-> 1, sphere |-> Epsilon,
     insert |-> Computed(FALSE, new), remove |-> Computed(FALSE, new),
     add |-> Computed(FALSE, new), sub |-> Computed(FALSE, new),
     mul |-> Computed(FALSE, new)]

\* Result<Path, PathParseError> and Result<StagedPath, StagedPathParseError>,
\* before from_str is called.
NotParsed ==
    [path |-> [ok |-> FALSE, error |-> "Pending"],
     staged |-> [ok |-> FALSE, error |-> "Pending"]]

\* StagedPath, before parallelize is called.
NotParallelized ==
    [panic |-> FALSE, path |-> [source |-> new, target |-> new, count |-> 1,
                                catalysts |-> new, recipes |-> <<>>],
     stages |-> <<>>, placements |-> <<>>]

\* Result<Plan, PlanningError>, before plan is called.
NotPlanned ==
    [error |-> "Pending", index |-> 0, set |-> new, input |-> new,
     stages |-> <<>>]

\* No path is given to the verifier, nor to the planner.
Unchecked ==
    /\ staged = [path |-> Path(new, new, ONE, new, <<>>), stages |-> <<>>]
    /\ verified = NotVerified
    /\ planned = NotPlanned
    /\ parallelized = NotParallelized
    /\ parsed = NotParsed
    /\ arithmetic = NotComputed
    /\ identified = NotIdentified

\* The state in which solve is entered, the request apart.
Started ==
    /\ mode = "none"
    /\ count = ONE
    /\ apps = ONE
    /\ inversion = GOTZ
    /\ fold_source = new
    /\ fold_target = new
    /\ i = 0
    /\ last_error = "None"
    /\ tasks = 0
    /\ task_results = <<>>
    /\ pending = <<>>
    /\ searcher = FoldSearcher(new, new, new, new)
    /\ forward = <<>>
    /\ backward = <<>>
    /\ in_forward = {}
    /\ in_backward = {}
    /\ iteration = 0
    /\ turn = "forward"
    /\ search_result = NoResult
    /\ fold_result = NoResult
    /\ outcome = NoResult
    /\ dispatched = 0

Init ==
    /\ \/ /\ \E r \in Requests : source = r[1] /\ target = r[2]
          /\ configuration \in Configurations
       \/ /\ \E r \in InversionRequests : source = r[1] /\ target = r[2]
          /\ configuration = InversionConfiguration
       \/ /\ \E r \in LongRequests : source = r[1] /\ target = r[2]
          /\ configuration = LongConfiguration
    /\ recipes = SpaceExploration
    /\ hash_order \in HashOrders
    /\ pc = "solve"
    /\ Started
    /\ Unchecked

\* solve_by_fold is called with the given arguments, to return to the caller.
CallFold(caller, s_source, s_target) ==
    /\ mode' = caller
    /\ fold_source' = s_source
    /\ fold_target' = s_target
    /\ pc' = "solve_by_fold"

\* solve without the special case of sets of different lengths.
solve_without_preservation ==
    /\ pc = "solve"
    /\ IF source = target
       THEN /\ outcome' = Ok(<<Path(source, target, ONE, new, <<>>)>>)
            /\ pc' = "done"
            /\ UNCHANGED call
       ELSE IF count_negatives(source) = count_negatives(target)
       THEN /\ CallFold("solve", source, target)
            /\ UNCHANGED outcome
       ELSE /\ pc' = "solve_by_inversion"
            /\ UNCHANGED <<call, outcome>>
    /\ UNCHANGED <<request, checking, selection, exploration, search, fold_result,
                   dispatched>>

\* solve without the special case of a source equal to the target.
solve_without_trivial ==
    /\ pc = "solve"
    /\ IF len(source) # len(target)
       THEN /\ outcome' = Err("PreservationError")
            /\ pc' = "done"
            /\ UNCHANGED call
       ELSE IF count_negatives(source) = count_negatives(target)
       THEN /\ CallFold("solve", source, target)
            /\ UNCHANGED outcome
       ELSE /\ pc' = "solve_by_inversion"
            /\ UNCHANGED <<call, outcome>>
    /\ UNCHANGED <<request, checking, selection, exploration, search, fold_result,
                   dispatched>>

\* Solver::solve
solve ==
    /\ pc = "solve"
    /\ IF len(source) # len(target)
       THEN /\ outcome' = Err("PreservationError")
            /\ pc' = "done"
            /\ UNCHANGED call
       ELSE IF source = target
       THEN /\ outcome' = Ok(<<Path(source, target, ONE, new, <<>>)>>)
            /\ pc' = "done"
            /\ UNCHANGED call
       ELSE IF count_negatives(source) = count_negatives(target)
       THEN /\ CallFold("solve", source, target)
            /\ UNCHANGED outcome
       ELSE /\ pc' = "solve_by_inversion"
            /\ UNCHANGED <<call, outcome>>
    /\ UNCHANGED <<request, checking, selection, exploration, search, fold_result,
                   dispatched>>

\* solve_by_inversion, were the lack of an inversion of the required polarity
\* not an error: the first inversion of Space Exploration is used.
solve_by_inversion_with_any_inversion ==
    /\ pc = "solve_by_inversion"
    /\ LET matching == {k \in DOMAIN inversions :
                           /\ source = input(inversions[k])
                           /\ target = output(inversions[k])}
           selected == select_inversion(source, target)
       IN  IF matching # {}
           THEN /\ outcome' =
                    Ok(<<Path(source, target, ONE, new,
                              <<inversions[CHOOSE k \in matching :
                                              \A j \in matching : k <= j]>>)>>)
                /\ pc' = "done"
                /\ UNCHANGED selection
           ELSE /\ count' = selected.count
                /\ inversion' = selected.inversion
                /\ apps' = selected.apps
                /\ IF selected.apps # 1
                   THEN /\ outcome' = Err("OutsideInversions")
                        /\ pc' = "done"
                   ELSE /\ pc' = "inversion_first"
                        /\ UNCHANGED outcome
    /\ UNCHANGED <<request, checking, call, exploration, search, fold_result, dispatched>>

\* solve_by_inversion, were the number of applications of the inversion not
\* looked at.
solve_by_inversion_with_any_apps ==
    /\ pc = "solve_by_inversion"
    /\ LET matching == {k \in DOMAIN inversions :
                           /\ source = input(inversions[k])
                           /\ target = output(inversions[k])}
           selected == select_inversion(source, target)
       IN  IF matching # {}
           THEN /\ outcome' =
                    Ok(<<Path(source, target, ONE, new,
                              <<inversions[CHOOSE k \in matching :
                                              \A j \in matching : k <= j]>>)>>)
                /\ pc' = "done"
                /\ UNCHANGED selection
           ELSE IF ~selected.some
           THEN /\ outcome' = Err("NotWithInversions")
                /\ pc' = "done"
                /\ UNCHANGED selection
           ELSE /\ count' = selected.count
                /\ inversion' = selected.inversion
                /\ apps' = selected.apps
                /\ pc' = "inversion_first"
                /\ UNCHANGED outcome
    /\ UNCHANGED <<request, checking, call, exploration, search, fold_result, dispatched>>

\* Solver::solve_by_inversion, up to the special cases where the inversion is
\* first or last.
solve_by_inversion ==
    /\ pc = "solve_by_inversion"
    /\ LET matching == {k \in DOMAIN inversions :
                           /\ source = input(inversions[k])
                           /\ target = output(inversions[k])}
           selected == select_inversion(source, target)
       IN  IF matching # {}
           THEN /\ outcome' =
                    Ok(<<Path(source, target, ONE, new,
                              <<inversions[CHOOSE k \in matching :
                                              \A j \in matching : k <= j]>>)>>)
                /\ pc' = "done"
                /\ UNCHANGED selection
           ELSE IF ~selected.some
           THEN /\ outcome' = Err("NotWithInversions")
                /\ pc' = "done"
                /\ UNCHANGED selection
           ELSE /\ count' = selected.count
                /\ inversion' = selected.inversion
                /\ apps' = selected.apps
                /\ IF selected.apps # 1
                   THEN /\ outcome' = Err("OutsideInversions")
                        /\ pc' = "done"
                   ELSE /\ pc' = "inversion_first"
                        /\ UNCHANGED outcome
    /\ UNCHANGED <<request, checking, call, exploration, search, fold_result, dispatched>>

\* Solver::solve_by_inversion, the special case where the inversion is first.
inversion_first ==
    /\ pc = "inversion_first"
    /\ IF is_subset_of(input(inversion), mul(source, count))
       THEN CallFold("first",
                     add(sub(mul(source, count), input(inversion)),
                         output(inversion)),
                     mul(target, count))
       ELSE pc' = "inversion_last" /\ UNCHANGED call
    /\ UNCHANGED <<request, checking, selection, exploration, search, fold_result,
                   outcome, dispatched>>

\* Solver::solve_by_inversion, the special case where the inversion is last.
inversion_last ==
    /\ pc = "inversion_last"
    /\ IF is_subset_of(output(inversion), mul(target, count))
       THEN CallFold("last", mul(source, count),
                     add(sub(mul(target, count), output(inversion)),
                         input(inversion)))
       ELSE pc' = "solve_by_middle_inversion" /\ UNCHANGED call
    /\ UNCHANGED <<request, checking, selection, exploration, search, fold_result,
                   outcome, dispatched>>

\* Solver::solve_by_middle_inversion, up to the exploration loop.
solve_by_middle_inversion ==
    /\ pc = "solve_by_middle_inversion"
    /\ mode' = "middle"
    /\ i' = configuration.minimum_catalysts
    /\ last_error' = "None"
    /\ pc' = "explore"
    /\ UNCHANGED <<request, checking, selection, fold_source, fold_target, tasks,
                   task_results, pending, search, fold_result, outcome,
                   dispatched>>

\* solve_by_fold without the special case of a folding from source to target.
solve_by_fold_without_match ==
    /\ pc = "solve_by_fold"
    /\ i' = configuration.minimum_catalysts
    /\ last_error' = "None"
    /\ pc' = "explore"
    /\ UNCHANGED <<request, checking, selection, call, tasks, task_results, pending,
                   search, fold_result, outcome, dispatched>>

\* Solver::solve_by_fold, up to the exploration loop.
solve_by_fold ==
    /\ pc = "solve_by_fold"
    /\ LET matching == {k \in DOMAIN foldings :
                           /\ fold_source = input(foldings[k])
                           /\ fold_target = output(foldings[k])}
       IN  IF matching # {}
           THEN /\ fold_result' =
                    Ok(<<Path(fold_source, fold_target, ONE, new,
                              <<foldings[CHOOSE k \in matching :
                                            \A j \in matching : k <= j]>>)>>)
                /\ pc' = "fold_return"
                /\ UNCHANGED <<i, last_error>>
           ELSE /\ i' = configuration.minimum_catalysts
                /\ last_error' = "None"
                /\ pc' = "explore"
                /\ UNCHANGED fold_result
    /\ UNCHANGED <<request, checking, selection, call, tasks, task_results, pending,
                   search, outcome, dispatched>>

\* The exploration loop of solve_by_fold and solve_by_middle_inversion: the
\* searchers generated for i catalysts, in order.
searchers ==
    IF mode = "middle"
    THEN generate_inversion_searchers(source, target, count, inversion, i)
    ELSE generate_searchers(fold_source, fold_target, i)

\* Executor::execute is called with one task per searcher.
Dispatch(number) ==
    /\ tasks' = number
    /\ task_results' = <<>>
    /\ dispatched' = dispatched + number
    /\ pc' = "execute"

\* The exploration loop of solve_by_fold and solve_by_middle_inversion, the
\* head of an iteration: the searchers are generated and handed to the
\* executor, or the loop is over.  A build with debug assertions panics in
\* generate_candidate_pre_inversions when the candidates do not match
\* count * source; a build without them goes on.
explore ==
    /\ pc = "explore"
    /\ IF i > configuration.maximum_catalysts
       THEN /\ fold_result' =
                Err(IF last_error = "None" THEN "OutsideCatalysts" ELSE last_error)
            /\ pc' = "fold_return"
            /\ UNCHANGED <<tasks, task_results, dispatched>>
       ELSE \/ /\ mode = "middle"
               /\ ~candidates_match(source, count, inversion)
               /\ pc' = "panicked"
               /\ UNCHANGED <<tasks, task_results, dispatched, fold_result>>
            \/ /\ Dispatch(Len(searchers))
               /\ UNCHANGED fold_result
    /\ UNCHANGED <<request, checking, selection, call, i, last_error, pending, search,
                   outcome>>

\* The task the executor runs next.
task == searchers[Len(task_results) + 1]

\* FoldSearcher::solve: maximum_iterations
maximum_iterations == (configuration.maximum_recipes + 1) \div 2

\* FoldSearcher::solve returns result.  The task of a FoldSearcher returns it
\* to the executor; InversionSearcher::solve returns the error of either
\* search, goes on to the second search after the first, and returns the
\* combined paths after the second.
Finish(result) ==
    /\ pc' = "execute"
    /\ search_result' = result
    /\ IF mode # "middle"
       THEN /\ task_results' = Append(task_results, result)
            /\ UNCHANGED pending
       ELSE IF ~result.ok
       THEN /\ task_results' = Append(task_results, result)
            /\ pending' = <<>>
       ELSE IF pending = <<>>
       THEN /\ pending' = <<result.paths>>
            /\ UNCHANGED task_results
       ELSE /\ task_results' =
                Append(task_results, Ok(combine(task, pending[1], result.paths)))
            /\ pending' = <<>>

\* FoldSearcher::solve of self, up to the loop.
StartSearch(self) ==
    /\ searcher' = self
    /\ search_result' = NoResult
    /\ IF \/ count_negatives(self.source) # count_negatives(self.target)
          \/ count_positives(self.source) # count_positives(self.target)
       THEN /\ pc' = "panicked"
            /\ UNCHANGED <<forward, backward, in_forward, in_backward,
                           iteration, turn>>
       ELSE /\ forward' = <<>>
            /\ backward' = <<>>
            /\ in_forward' = {add(self.source, self.source_catalysts)}
            /\ in_backward' = {add(self.target, self.target_catalysts)}
            /\ iteration' = 0
            /\ turn' = "forward"
            /\ pc' = "search"

\* The next search starts: the search of the next task, or of its pre or post
\* searcher.
start_search ==
    /\ pc = "execute"
    /\ Len(task_results) < tasks
    /\ StartSearch(IF mode # "middle" THEN task
                   ELSE IF pending = <<>> THEN task.pre ELSE task.post)
    /\ UNCHANGED <<request, checking, selection, call, exploration, fold_result, outcome,
                   dispatched>>

\* FoldSearcher::solve, a connection has been found: the paths of stitch are
\* returned, if stitch returns.
Stitched(stitched) ==
    IF stitched.ends THEN Finish(Ok(stitched.paths))
    ELSE pc' = "hung" /\ UNCHANGED <<task_results, pending, search_result>>

\* FoldSearcher::solve, after advance in the given direction.
Advanced(direction, step) ==
    /\ IF direction = "forward"
       THEN /\ forward' = step.known
            /\ in_forward' = step.inputs
            /\ UNCHANGED <<backward, in_backward>>
       ELSE /\ backward' = step.known
            /\ in_backward' = step.inputs
            /\ UNCHANGED <<forward, in_forward>>
    /\ IF ~step.found
       THEN /\ turn' = IF direction = "forward" THEN "backward" ELSE "forward"
            /\ iteration' = IF direction = "forward" THEN iteration
                            ELSE iteration + 1
            /\ UNCHANGED <<pc, task_results, pending, search_result>>
       ELSE /\ UNCHANGED <<turn, iteration>>
            /\ Stitched(stitch(searcher,
                               IF direction = "forward" THEN step.known
                               ELSE forward,
                               IF direction = "forward" THEN backward
                               ELSE step.known,
                               DOMAIN step.outputs))

\* FoldSearcher::solve, the first half of an iteration.
advance_forward ==
    /\ pc = "search"
    /\ turn = "forward"
    /\ iteration < maximum_iterations
    /\ IF in_forward = {} /\ in_backward = {}
       THEN /\ Finish(Err("NotWithFoldings"))
            /\ UNCHANGED <<forward, backward, in_forward, in_backward,
                           iteration, turn>>
       ELSE Advanced("forward", advance("forward", forward, in_forward, backward))
    /\ UNCHANGED <<request, checking, selection, call, i, last_error, tasks, searcher,
                   fold_result, outcome, dispatched>>

\* FoldSearcher::solve, the second half of an iteration.
advance_backward ==
    /\ pc = "search"
    /\ turn = "backward"
    /\ Advanced("backward", advance("backward", backward, in_backward, forward))
    /\ UNCHANGED <<request, checking, selection, call, i, last_error, tasks, searcher,
                   fold_result, outcome, dispatched>>

\* FoldSearcher::solve, after the loop.
give_up ==
    /\ pc = "search"
    /\ turn = "forward"
    /\ iteration = maximum_iterations
    /\ Finish(Err(IF in_forward = {} /\ in_backward = {}
                  THEN "NotWithFoldings" ELSE "OutsideRecipes"))
    /\ UNCHANGED <<request, checking, selection, call, i, last_error, tasks, searcher,
                   forward, backward, in_forward, in_backward, iteration, turn,
                   fold_result, outcome, dispatched>>

\* The exploration loop, the loop over the results of the executor: results
\* and last_error after the results, taken in the order given.  The paths of
\* the successful results are appended in order, and last_error is the error
\* of the last result whose error is definitive or is OutsideRecipes.
RECURSIVE extend(_, _, _)
extend(task_outcomes, low, high) ==
    IF low > high THEN <<>>
    ELSE IF low = high THEN task_outcomes[low].paths
    ELSE extend(task_outcomes, low, (low + high) \div 2)
             \o extend(task_outcomes, ((low + high) \div 2) + 1, high)

\* The loop over the results without the arms of the errors: last_error is
\* left as it was.
collect_without_errors(task_outcomes, results, error) ==
    [results |-> results \o extend(task_outcomes, 1, Len(task_outcomes)),
     last_error |-> error]

collect(task_outcomes, results, error) ==
    LET kept == {k \in DOMAIN task_outcomes :
                    /\ ~task_outcomes[k].ok
                    /\ \/ is_definitive(task_outcomes[k].error)
                       \/ task_outcomes[k].error = "OutsideRecipes"}
    IN  [results |-> results \o extend(task_outcomes, 1, Len(task_outcomes)),
         last_error |->
             IF kept = {} THEN error
             ELSE task_outcomes[CHOOSE k \in kept : \A j \in kept : j <= k].error]

\* An executor which returns the results of the tasks last to first.
execute_in_reverse(task_outcomes) ==
    [k \in DOMAIN task_outcomes |-> task_outcomes[Len(task_outcomes) + 1 - k]]

\* Executor::execute of SequentialExecutor and of RayonExecutor: the results
\* of the tasks, in the order of the tasks.
execute(task_outcomes) == task_outcomes

\* Gathered, were the results returned without looking whether there are any.
Gathered_whether_empty_or_not(collected) ==
    /\ last_error' = collected.last_error
    /\ fold_result' = Ok(collected.results)
    /\ pc' = "fold_return"
    /\ UNCHANGED i

\* The exploration loop, after the loop over the results: the results are
\* returned, or the loop goes on with one catalyst more.
Gathered(collected) ==
    /\ last_error' = collected.last_error
    /\ IF collected.results # <<>>
       THEN /\ fold_result' = Ok(collected.results)
            /\ pc' = "fold_return"
            /\ UNCHANGED i
       ELSE /\ i' = i + 1
            /\ pc' = "explore"
            /\ UNCHANGED fold_result

\* The exploration loop, the end of an iteration, once the executor has
\* returned every result.
gather ==
    /\ pc = "execute"
    /\ Len(task_results) = tasks
    /\ Gathered(collect(execute(task_results), <<>>, last_error))
    /\ UNCHANGED <<request, checking, selection, call, tasks, task_results, pending,
                   search, outcome, dispatched>>

\* patch, were the inversion not put in the recipes.
patch_without_inversion(paths, first) ==
    [k \in DOMAIN paths |->
        [paths[k] EXCEPT !.source = source, !.target = target, !.count = count]]

\* Solver::solve_by_inversion: the paths of solve_by_fold, made paths from
\* source to target, the inversion first or last.
patch(paths, first) ==
    [k \in DOMAIN paths |->
        [paths[k] EXCEPT !.source = source, !.target = target, !.count = count,
                         !.recipes = IF first THEN <<inversion>> \o @
                                     ELSE Append(@, inversion)]]

\* The exploration loop returns to its caller: solve returns what
\* solve_by_fold returned, solve_by_inversion returns the paths of
\* solve_by_fold and goes on to the next case without them, and what
\* solve_by_middle_inversion returns is returned as it is.
fold_return ==
    /\ pc = "fold_return"
    /\ IF mode \in {"solve", "middle"}
       THEN outcome' = fold_result /\ pc' = "done"
       ELSE IF fold_result.ok
       THEN outcome' = Ok(patch(fold_result.paths, mode = "first")) /\ pc' = "done"
       ELSE /\ pc' = IF mode = "first" THEN "inversion_last"
                     ELSE "solve_by_middle_inversion"
            /\ UNCHANGED outcome
    /\ UNCHANGED <<request, checking, selection, call, exploration, search, fold_result,
                   dispatched>>

Next ==
    \/ solve
    \/ solve_by_inversion
    \/ inversion_first
    \/ inversion_last
    \/ solve_by_middle_inversion
    \/ solve_by_fold
    \/ explore
    \/ start_search
    \/ advance_forward
    \/ advance_backward
    \/ give_up
    \/ gather
    \/ fold_return

Spec == Init /\ [][Next]_vars

\* --------------------------------------------------------------------------
\* The selection of the inversion, on its own
\* --------------------------------------------------------------------------

\* The greatest number of arcospheres of the requests below.
MaxSelectLen == 8

\* The set of a Epsilon and b Gamma.
Filled(a, b) ==
    [s \in Arcospheres |->
        IF s = Epsilon THEN a ELSE IF s = Gamma THEN b ELSE 0]

\* The requests: as many arcospheres in the source as in the target, and not
\* as many negatives; and the inversions themselves.
SelectRequests ==
    {<<Filled(a, n - a), Filled(b, n - b)>> :
        <<n, a, b>> \in {t \in (1 .. MaxSelectLen) \X (0 .. MaxSelectLen)
                                   \X (0 .. MaxSelectLen) :
                            t[2] <= t[1] /\ t[3] <= t[1] /\ t[2] # t[3]}}
    \cup {<<input(SeInversions[k]), output(SeInversions[k])>> :
              k \in DOMAIN SeInversions}

SelectInit ==
    /\ \E r \in SelectRequests : source = r[1] /\ target = r[2]
    /\ configuration = InversionConfiguration
    /\ recipes \in RecipeSets
    /\ hash_order = "ascending"
    /\ pc = "solve"
    /\ Started
    /\ Unchecked

\* solve, up to the selection of the inversion.
SelectNext ==
    \/ solve
    \/ solve_by_inversion

SelectSpec == SelectInit /\ [][SelectNext]_vars

\* --------------------------------------------------------------------------
\* Verifier
\* --------------------------------------------------------------------------

\* VerificationError, and Ok: the variant; the index of UnknownRecipe and of
\* FailedApplication; and the set carried, which is current, result or
\* remainder.
Verification(error, index, set) == [error |-> error, index |-> index, set |-> set]

\* replay, were a recipe which does not find its input taken all the same,
\* and the last such recipe reported with the state after it.
RECURSIVE replay_to_the_end(_, _, _)
replay_to_the_end(remaining, step, index) ==
    IF remaining = <<>> THEN [error |-> "None", step |-> step, index |-> index]
    ELSE LET after == replay_to_the_end(
                          Tail(remaining),
                          add(sub(step, input(Head(remaining))),
                              output(Head(remaining))),
                          index + 1)
         IN  IF after.error = "None" /\ ~is_subset_of(input(Head(remaining)), step)
             THEN [error |-> "FailedApplication", step |-> after.step,
                   index |-> index]
             ELSE after

\* replay, were the output of a recipe not added to the step.
RECURSIVE replay_without_output(_, _, _)
replay_without_output(remaining, step, index) ==
    IF remaining = <<>> THEN [error |-> "None", step |-> step, index |-> index]
    ELSE IF ~is_subset_of(input(Head(remaining)), step)
    THEN [error |-> "FailedApplication", step |-> step, index |-> index]
    ELSE replay_without_output(Tail(remaining),
                               sub(step, input(Head(remaining))), index + 1)

\* Verifier::verify, the second loop: the error of the first recipe whose
\* input is not in step, its index, and the step reached.
RECURSIVE replay(_, _, _)
replay(remaining, step, index) ==
    IF remaining = <<>> THEN [error |-> "None", step |-> step, index |-> index]
    ELSE IF ~is_subset_of(input(Head(remaining)), step)
    THEN [error |-> "FailedApplication", step |-> step, index |-> index]
    ELSE replay(Tail(remaining),
                add(sub(step, input(Head(remaining))), output(Head(remaining))),
                index + 1)

\* verify_end, were the catalysts not compared.
verify_end_without_catalysts(path, replayed) ==
    IF replayed.error # "None"
    THEN Verification(replayed.error, replayed.index, replayed.step)
    ELSE IF ~is_subset_of(mul(path.target, path.count), replayed.step)
    THEN Verification("FailedTarget", 0, replayed.step)
    ELSE Verification("Ok", 0, new)

\* Verifier::verify, after the second loop.
verify_end(path, replayed) ==
    IF replayed.error # "None"
    THEN Verification(replayed.error, replayed.index, replayed.step)
    ELSE IF ~is_subset_of(mul(path.target, path.count), replayed.step)
    THEN Verification("FailedTarget", 0, replayed.step)
    ELSE IF sub(replayed.step, mul(path.target, path.count)) # path.catalysts
    THEN Verification("FailedCatalysts", 0,
                      sub(replayed.step, mul(path.target, path.count)))
    ELSE Verification("Ok", 0, new)

\* Verifier::verify, the first loop: the recipes which are not of the recipe
\* set, by their index from 1.
unknown(path) ==
    {k \in DOMAIN path.recipes :
        path.recipes[k] \notin Range(inversions) \cup Range(foldings)}

\* Verifier::verify, with what the error carries.
verify_path(path) ==
    IF unknown(path) # {}
    THEN Verification("UnknownRecipe",
                      (CHOOSE k \in unknown(path) :
                          \A j \in unknown(path) : k <= j) - 1,
                      new)
    ELSE verify_end(path, replay(path.recipes,
                                 add(mul(path.source, path.count), path.catalysts),
                                 0))

\* Verifier::verify, the variant of the result.
verify(path) == verify_path(path).error

\* The greatest number of recipes of the paths given to the verifier.
MaxPathLen == 2

\* The sequences of at most n elements of a set.
SeqsUpTo(elements, n) == UNION {[1 .. m -> elements] : m \in 0 .. n}

\* The paths given to the verifier: some which verify, and some which fail in
\* each way.
VerifyPaths ==
    {Path(path_source, path_target, path_count, path_catalysts, path_recipes) :
        path_source \in {from_spheres(<<Epsilon, Phi>>),
                         from_spheres(<<Epsilon, Omega>>), input(GOTZ)},
        path_target \in {from_spheres(<<Lambda, Xi>>),
                         from_spheres(<<Gamma, Lambda>>),
                         from_spheres(<<Epsilon, Phi>>), output(GOTZ)},
        path_count \in 1 .. 2,
        path_catalysts \in {new, from_spheres(<<Gamma>>),
                            from_spheres(<<Omega>>)},
        path_recipes \in SeqsUpTo({EO, PG, LO, GOTZ}, MaxPathLen)}

\* A verifier is made with a recipe set, and a path is given to it.
VerifyInit ==
    /\ recipes \in RecipeSets
    /\ source = new
    /\ target = new
    /\ configuration = InversionConfiguration
    /\ hash_order = "ascending"
    /\ pc = "verify"
    /\ Started
    /\ \E path \in VerifyPaths : staged = [path |-> path, stages |-> <<>>]
    /\ verified = NotVerified
    /\ planned = NotPlanned
    /\ parallelized = NotParallelized
    /\ parsed = NotParsed
    /\ arithmetic = NotComputed
    /\ identified = NotIdentified

\* The call of Verifier::verify.
call_verify ==
    /\ pc = "verify"
    /\ verified' = verify_path(staged.path)
    /\ pc' = "verified"
    /\ UNCHANGED <<request, selection, call, exploration, search, fold_result,
                   outcome, dispatched, staged, planned, parallelized,
                   parsed, arithmetic, identified>>

VerifyNext == call_verify

VerifySpec == VerifyInit /\ [][VerifyNext]_vars

\* --------------------------------------------------------------------------
\* Planner
\* --------------------------------------------------------------------------

\* StagedPath::stages: the recipes of each stage, the stages being cut at the
\* indexes of staged.stages.
stages(path) ==
    LET cuts == <<0>> \o path.stages \o <<Len(path.path.recipes)>>
    IN  [k \in 1 .. Len(cuts) - 1 |->
            SubSeq(path.path.recipes, cuts[k] + 1, cuts[k + 1])]

\* Stage::input: the inputs of the recipes of the stage, added.
RECURSIVE stage_input(_)
stage_input(stage) ==
    IF stage = <<>> THEN new
    ELSE add(stage_input(Tail(stage)), input(Head(stage)))

\* Stage::output: the outputs of the recipes of the stage, added.
RECURSIVE stage_output(_)
stage_output(stage) ==
    IF stage = <<>> THEN new
    ELSE add(stage_output(Tail(stage)), output(Head(stage)))

\* PlanningError, and Ok: the variant; the index and the input of
\* FailedApplication; the set carried, which is current, result or remainder;
\* and the descriptions of the stages of Ok.
Planning(error, index, set, stage, descriptions) ==
    [error |-> error, index |-> index, set |-> set, input |-> stage,
     stages |-> descriptions]

\* compute_remainders, were a stage which does not find its input taken all the
\* same.
RECURSIVE remainders_without_check(_, _, _, _)
remainders_without_check(remaining, step, index, remainders) ==
    IF remaining = <<>>
    THEN [error |-> "None", step |-> step, index |-> index,
          input |-> new, remainders |-> remainders]
    ELSE remainders_without_check(
             Tail(remaining),
             add(sub(step, stage_input(Head(remaining))),
                 stage_output(Head(remaining))),
             index + 1,
             Append(remainders, sub(step, stage_input(Head(remaining)))))

\* compute_remainders, were the input of a stage left in its remainder.
RECURSIVE remainders_with_input(_, _, _, _)
remainders_with_input(remaining, step, index, remainders) ==
    IF remaining = <<>>
    THEN [error |-> "None", step |-> step, index |-> index,
          input |-> new, remainders |-> remainders]
    ELSE IF ~is_subset_of(stage_input(Head(remaining)), step)
    THEN [error |-> "FailedApplication", step |-> step, index |-> index,
          input |-> stage_input(Head(remaining)), remainders |-> remainders]
    ELSE remainders_with_input(
             Tail(remaining),
             add(sub(step, stage_input(Head(remaining))),
                 stage_output(Head(remaining))),
             index + 1,
             Append(remainders, step))

\* Planner::compute_remainders, the loop: the first stage whose input is not
\* in step, or the step reached and what each stage leaves of the step before
\* it.
RECURSIVE remainders_of(_, _, _, _)
remainders_of(remaining, step, index, remainders) ==
    IF remaining = <<>>
    THEN [error |-> "None", step |-> step, index |-> index,
          input |-> new, remainders |-> remainders]
    ELSE IF ~is_subset_of(stage_input(Head(remaining)), step)
    THEN [error |-> "FailedApplication", step |-> step, index |-> index,
          input |-> stage_input(Head(remaining)), remainders |-> remainders]
    ELSE remainders_of(
             Tail(remaining),
             add(sub(step, stage_input(Head(remaining))),
                 stage_output(Head(remaining))),
             index + 1,
             Append(remainders, sub(step, stage_input(Head(remaining)))))

\* Planner::compute_remainders
compute_remainders(path) ==
    LET replayed == remainders_of(stages(path),
                                  add(mul(path.path.source, path.path.count),
                                      path.path.catalysts),
                                  0, <<>>)
        wanted == mul(path.path.target, path.path.count)
    IN  IF replayed.error # "None"
        THEN Planning(replayed.error, replayed.index, replayed.step,
                      replayed.input, <<>>)
        ELSE IF ~is_subset_of(wanted, replayed.step)
        THEN Planning("FailedTarget", 0, replayed.step, new, <<>>)
        ELSE IF sub(replayed.step, wanted) # path.path.catalysts
        THEN Planning("FailedCatalysts", 0, sub(replayed.step, wanted), new, <<>>)
        ELSE Planning("Ok", 0, new, new, replayed.remainders)

\* find_earliest_extraction_stage: the index, from 0, after the last remainder
\* without the element, and 0 when all have it.
find_earliest_extraction_stage(remainders, element) ==
    LET without == {k \in DOMAIN remainders : remainders[k][element] = 0}
    IN  IF without = {} THEN 0
        ELSE CHOOSE k \in without : \A j \in without : j <= k

\* compute_extracteds, were the spheres taken from the remainders not put in
\* the extracteds.
RECURSIVE extract_without_insert(_, _, _)
extract_without_insert(spheres, remainders, extracteds) ==
    IF spheres = <<>>
    THEN [panic |-> FALSE, remainders |-> remainders, extracteds |-> extracteds]
    ELSE LET sphere == Head(spheres)
             earliest == find_earliest_extraction_stage(remainders, sphere)
         IN  extract_without_insert(
                 Tail(spheres),
                 [k \in DOMAIN remainders |->
                     IF k > earliest
                     THEN [remainders[k] EXCEPT ![sphere] = @ - 1]
                     ELSE remainders[k]],
                 extracteds)

\* compute_extracteds, were a sphere put in the extracted of its earliest
\* stage only.
RECURSIVE extract_at_one_stage(_, _, _)
extract_at_one_stage(spheres, remainders, extracteds) ==
    IF spheres = <<>>
    THEN [panic |-> FALSE, remainders |-> remainders, extracteds |-> extracteds]
    ELSE LET sphere == Head(spheres)
             earliest == find_earliest_extraction_stage(remainders, sphere)
         IN  extract_at_one_stage(
                 Tail(spheres),
                 [k \in DOMAIN remainders |->
                     IF k > earliest
                     THEN [remainders[k] EXCEPT ![sphere] = @ - 1]
                     ELSE remainders[k]],
                 [k \in DOMAIN extracteds |->
                     IF k = earliest + 1 THEN insert(extracteds[k], sphere)
                     ELSE extracteds[k]])

\* Planner::compute_extracteds, the loop: each sphere of the output is moved
\* from the remainders to the extracteds, from its earliest stage on.  Set::remove
\* panics on a set without the sphere.
RECURSIVE extract(_, _, _)
extract(spheres, remainders, extracteds) ==
    IF spheres = <<>>
    THEN [panic |-> FALSE, remainders |-> remainders, extracteds |-> extracteds]
    ELSE LET sphere == Head(spheres)
             earliest == find_earliest_extraction_stage(remainders, sphere)
         IN  IF \E k \in DOMAIN remainders :
                    k > earliest /\ remainders[k][sphere] = 0
             THEN [panic |-> TRUE, remainders |-> remainders,
                   extracteds |-> extracteds]
             ELSE extract(
                      Tail(spheres),
                      [k \in DOMAIN remainders |->
                          IF k > earliest
                          THEN [remainders[k] EXCEPT ![sphere] = @ - 1]
                          ELSE remainders[k]],
                      [k \in DOMAIN extracteds |->
                          IF k > earliest THEN insert(extracteds[k], sphere)
                          ELSE extracteds[k]])

\* Planner::compute_extracteds
compute_extracteds(remainders, path) ==
    extract(into_iter(add(mul(path.path.target, path.path.count),
                          path.path.catalysts)),
            remainders, [k \in DOMAIN remainders |-> new])

\* Planner::plan
plan(path) ==
    LET computed == compute_remainders(path)
        extracted == compute_extracteds(computed.stages, path)
    IN  IF computed.error # "Ok" THEN computed
        ELSE IF extracted.panic THEN Planning("Panic", 0, new, new, <<>>)
        ELSE Planning("Ok", 0, new, new,
                      [k \in DOMAIN computed.stages |->
                          [remainder |-> extracted.remainders[k],
                           extracted |-> extracted.extracteds[k]]])

\* The indexes at which the stages of a path of number recipes may start: each
\* after the one before it, and none at 0.
StageCuts(number) ==
    {cuts \in SeqsUpTo(1 .. number - 1, number) :
        \A k \in 1 .. Len(cuts) - 1 : cuts[k] < cuts[k + 1]}

\* The staged paths given to the planner: some which are planned, and some
\* which fail in each way.
PlanPaths ==
    UNION {{[path |-> Path(path_source, path_target, path_count,
                            path_catalysts, path_recipes),
             stages |-> cuts] : cuts \in StageCuts(Len(path_recipes))} :
        path_source \in {from_spheres(<<Epsilon, Phi>>),
                         from_spheres(<<Epsilon, Omega>>), input(GOTZ),
                         from_spheres(<<Gamma, Gamma, Omega, Theta, Zeta>>)},
        path_target \in {from_spheres(<<Lambda, Xi>>),
                         from_spheres(<<Gamma, Lambda>>), output(GOTZ),
                         from_spheres(<<Epsilon, Lambda, Omega, Xi, Xi>>)},
        path_count \in 1 .. 2,
        path_catalysts \in {new, from_spheres(<<Gamma>>),
                            from_spheres(<<Gamma, Omega>>)},
        path_recipes \in SeqsUpTo({EO, PG, GOTZ}, MaxPathLen)}

\* A planner is made, and a staged path is given to it.
PlanInit ==
    /\ recipes = SpaceExploration
    /\ source = new
    /\ target = new
    /\ configuration = InversionConfiguration
    /\ hash_order = "ascending"
    /\ pc = "plan"
    /\ Started
    /\ staged \in PlanPaths
    /\ verified = NotVerified
    /\ planned = NotPlanned
    /\ parallelized = NotParallelized
    /\ parsed = NotParsed
    /\ arithmetic = NotComputed
    /\ identified = NotIdentified

\* The call of Planner::plan.
call_plan ==
    /\ pc = "plan"
    /\ planned' = plan(staged)
    /\ pc' = "planned"
    /\ UNCHANGED <<request, selection, call, exploration, search, fold_result,
                   outcome, dispatched, staged, verified, parallelized,
                   parsed, arithmetic, identified>>

PlanNext == call_plan

PlanSpec == PlanInit /\ [][PlanNext]_vars

\* --------------------------------------------------------------------------
\* StagedPath::parallelize
\* --------------------------------------------------------------------------

\* find_earliest, were every recipe put in the last stage, which is empty.
find_earliest_in_last(stage_list, recipe) == Len(stage_list) - 1

\* find_earliest: the index, from 0, after the last stage whose remaining is
\* without the input of the recipe, and 0 when all have it.
find_earliest(stage_list, recipe) ==
    LET lacking == {k \in DOMAIN stage_list :
                       ~is_subset_of(input(recipe), stage_list[k].remaining)}
    IN  IF lacking = {} THEN 0
        ELSE CHOOSE k \in lacking : \A j \in lacking : j <= k

\* What parallelize does of one recipe: the stages before it, and the index of
\* the stage it is put in.
Placement(stage_list, recipe, earliest) ==
    [recipe |-> recipe, earliest |-> earliest,
     having |-> {k - 1 : k \in {j \in DOMAIN stage_list :
                     is_subset_of(input(recipe), stage_list[j].remaining)}},
     filled |-> {k - 1 : k \in {j \in DOMAIN stage_list :
                     stage_list[j].recipes # <<>>}}]

\* place, were the recipe put in the first stage whose remaining has its input.
RECURSIVE place_in_first(_, _, _)
place_in_first(remaining, stage_list, placements) ==
    IF remaining = <<>>
    THEN [panic |-> FALSE, stage_list |-> stage_list, placements |-> placements]
    ELSE LET recipe == Head(remaining)
             having == {k \in DOMAIN stage_list :
                           is_subset_of(input(recipe), stage_list[k].remaining)}
             earliest == IF having = {} THEN Len(stage_list)
                         ELSE (CHOOSE k \in having : \A j \in having : k <= j) - 1
         IN  IF earliest + 1 > Len(stage_list)
             THEN [panic |-> TRUE, stage_list |-> stage_list,
                   placements |-> placements]
             ELSE LET stage ==
                          [remaining |-> sub(stage_list[earliest + 1].remaining,
                                             input(recipe)),
                           recipes |-> Append(stage_list[earliest + 1].recipes,
                                              recipe)]
                  IN  place_in_first(
                          Tail(remaining),
                          IF Len(stage.recipes) = 1
                          THEN Append([stage_list EXCEPT ![earliest + 1] = stage],
                                      [remaining |-> add(stage.remaining,
                                                         output(recipe)),
                                       recipes |-> <<>>])
                          ELSE [k \in DOMAIN stage_list |->
                                   IF k = earliest + 1 THEN stage
                                   ELSE IF k > earliest + 1
                                   THEN [stage_list[k] EXCEPT !.remaining =
                                            add(sub(@, input(recipe)),
                                                output(recipe))]
                                   ELSE stage_list[k]],
                          Append(placements,
                                 Placement(stage_list, recipe, earliest)))

\* StagedPath::parallelize, the first loop: each recipe is put in a stage.  The
\* index of a stage which is not there is a panic.
RECURSIVE place(_, _, _)
place(remaining, stage_list, placements) ==
    IF remaining = <<>>
    THEN [panic |-> FALSE, stage_list |-> stage_list, placements |-> placements]
    ELSE LET recipe == Head(remaining)
             earliest == find_earliest(stage_list, recipe)
         IN  IF earliest + 1 > Len(stage_list)
             THEN [panic |-> TRUE, stage_list |-> stage_list,
                   placements |-> placements]
             ELSE LET stage ==
                          [remaining |-> sub(stage_list[earliest + 1].remaining,
                                             input(recipe)),
                           recipes |-> Append(stage_list[earliest + 1].recipes,
                                              recipe)]
                  IN  place(
                          Tail(remaining),
                          IF Len(stage.recipes) = 1
                          THEN Append([stage_list EXCEPT ![earliest + 1] = stage],
                                      [remaining |-> add(stage.remaining,
                                                         output(recipe)),
                                       recipes |-> <<>>])
                          ELSE [k \in DOMAIN stage_list |->
                                   IF k = earliest + 1 THEN stage
                                   ELSE IF k > earliest + 1
                                   THEN [stage_list[k] EXCEPT !.remaining =
                                            add(sub(@, input(recipe)),
                                                output(recipe))]
                                   ELSE stage_list[k]],
                          Append(placements,
                                 Placement(stage_list, recipe, earliest)))

\* compress, were the recipes of a stage left in the order of the path.
RECURSIVE compress_unsorted(_, _, _)
compress_unsorted(stage_list, path_recipes, compressed) ==
    IF stage_list = <<>>
    THEN [recipes |-> path_recipes, stages |-> compressed]
    ELSE compress_unsorted(
             Tail(stage_list),
             path_recipes \o Head(stage_list).recipes,
             IF path_recipes # <<>> THEN Append(compressed, Len(path_recipes))
             ELSE compressed)

\* StagedPath::parallelize, the last loop: the recipes of each stage are
\* sorted, and put one stage after the other, the start of each stage but the
\* first being kept.
RECURSIVE compress(_, _, _)
compress(stage_list, path_recipes, compressed) ==
    IF stage_list = <<>>
    THEN [recipes |-> path_recipes, stages |-> compressed]
    ELSE compress(
             Tail(stage_list),
             path_recipes \o SortSeq(Head(stage_list).recipes,
                                     LAMBDA a, b : a < b),
             IF path_recipes # <<>> THEN Append(compressed, Len(path_recipes))
             ELSE compressed)

\* StagedPath::parallelize
parallelize(path) ==
    LET placed == place(path.recipes,
                        <<[remaining |-> add(mul(path.source, path.count),
                                             path.catalysts),
                           recipes |-> <<>>]>>,
                        <<>>)
        kept == IF placed.stage_list[Len(placed.stage_list)].recipes = <<>>
                THEN SubSeq(placed.stage_list, 1, Len(placed.stage_list) - 1)
                ELSE placed.stage_list
        compressed == compress(kept, <<>>, <<>>)
    IN  IF placed.panic
        THEN [panic |-> TRUE, path |-> path, stages |-> <<>>,
              placements |-> placed.placements]
        ELSE [panic |-> FALSE,
              path |-> [path EXCEPT !.recipes = compressed.recipes],
              stages |-> compressed.stages,
              placements |-> placed.placements]

\* The greatest number of recipes of the paths given to parallelize.
MaxParallelLen == 4

\* The paths given to parallelize: some which verify, and some which do not;
\* and, among those from EEPTZ, some of which a recipe put in the first stage
\* last brings to a later stage an input of a recipe of the stage after it.
ParallelPaths ==
    {Path(path_source, path_target, path_count, path_catalysts, path_recipes) :
        path_source \in {from_spheres(<<Epsilon, Epsilon, Gamma, Omega, Xi>>),
                         from_spheres(<<Epsilon, Gamma, Omega, Omega, Xi>>)},
        path_target \in {from_spheres(<<Gamma, Lambda, Phi, Xi, Zeta>>),
                         from_spheres(<<Gamma, Lambda, Theta, Xi, Zeta>>)},
        path_count \in 1 .. 2,
        path_catalysts \in {new, from_spheres(<<Epsilon>>)},
        path_recipes \in SeqsUpTo({XG, LO, ET, EO}, MaxParallelLen)}
    \cup
    {Path(from_spheres(<<Epsilon, Epsilon, Phi, Theta, Zeta>>),
          from_spheres(<<Epsilon, Gamma, Lambda, Omega, Xi>>), ONE, new,
          path_recipes) :
        path_recipes \in SeqsUpTo({ET, EO, PG, PZ}, MaxParallelLen)}

\* A path is given to parallelize.
ParallelInit ==
    /\ recipes = SpaceExploration
    /\ source = new
    /\ target = new
    /\ configuration = InversionConfiguration
    /\ hash_order = "ascending"
    /\ pc = "parallelize"
    /\ Started
    /\ \E path \in ParallelPaths : staged = [path |-> path, stages |-> <<>>]
    /\ verified = NotVerified
    /\ planned = NotPlanned
    /\ parallelized = NotParallelized
    /\ parsed = NotParsed
    /\ arithmetic = NotComputed
    /\ identified = NotIdentified

\* The call of StagedPath::parallelize.
call_parallelize ==
    /\ pc = "parallelize"
    /\ parallelized' = parallelize(staged.path)
    /\ pc' = "parallelized"
    /\ UNCHANGED <<request, selection, call, exploration, search, fold_result,
                   outcome, dispatched, staged, verified, planned, parsed,
                   arithmetic, identified>>

ParallelNext == call_parallelize

ParallelSpec == ParallelInit /\ [][ParallelNext]_vars

\* --------------------------------------------------------------------------
\* Display and FromStr
\* --------------------------------------------------------------------------

\* A text is the sequence of its words, those which write! puts between
\* spaces: an arrow, a separator, a count or a set.
Word(kind) == [kind |-> kind, spheres |-> <<>>, number |-> 0]

\* Display for Set: the abbreviation of each sphere as often as the set holds
\* it, by index; nothing for the empty set.
display_set(set) == [kind |-> "set", spheres |-> into_iter(set), number |-> 0]

\* The count of a path, as displayed: x and the number.
display_count(number) == [kind |-> "x", spheres |-> <<>>, number |-> number]

\* str::split_whitespace: the words of a text which are not empty.
split_whitespace(text) ==
    SelectSeq(text, LAMBDA word : ~(word.kind = "set" /\ word.spheres = <<>>))

\* ArcosphereRecipe::display
display_recipe(recipe) ==
    <<display_set(input(recipe)), Word("->"), display_set(output(recipe))>>

\* Display for Path and StagedPath, up to the recipes.
display_head(path) ==
    <<display_set(path.source), Word("->"), display_set(path.target)>>
    \o (IF path.count > 1 THEN <<display_count(path.count)>> ELSE <<>>)
    \o (IF ~is_empty(path.catalysts)
        THEN <<Word("+"), display_set(path.catalysts)>> ELSE <<>>)

\* Display for Path, the recipes: => before the first and | before the others.
RECURSIVE display_recipes(_, _)
display_recipes(path_recipes, index) ==
    IF index > Len(path_recipes) THEN <<>>
    ELSE <<Word(IF index > 1 THEN "|" ELSE "=>")>>
         \o display_recipe(path_recipes[index])
         \o display_recipes(path_recipes, index + 1)

\* Display for Path
display_path(path) == display_head(path) \o display_recipes(path.recipes, 1)

\* Display for Stage: the recipes, with // between them.
RECURSIVE display_stage(_, _)
display_stage(stage, index) ==
    IF index > Len(stage) THEN <<>>
    ELSE (IF index > 1 THEN <<Word("//")>> ELSE <<>>)
         \o display_recipe(stage[index])
         \o display_stage(stage, index + 1)

\* Display for StagedPath, the stages: => before the first and | before the
\* others.
RECURSIVE display_stages(_, _)
display_stages(stage_list, index) ==
    IF index > Len(stage_list) THEN <<>>
    ELSE <<Word(IF index > 1 THEN "|" ELSE "=>")>>
         \o display_stage(stage_list[index], 1)
         \o display_stages(stage_list, index + 1)

\* Display for StagedPath
display_staged(path) ==
    display_head(path.path) \o display_stages(stages(path), 1)

\* Iterator::next on the words: the word at an index, and a word of no kind
\* after the last.
Next_word(tokens, index) ==
    IF index <= Len(tokens) THEN tokens[index] ELSE Word("none")

\* FromStr for Set: each sphere of the word is inserted.
parse_set(word) ==
    IF word.kind = "set"
    THEN [ok |-> TRUE, set |-> from_spheres(word.spheres)]
    ELSE [ok |-> FALSE, set |-> new]

\* All the recipes, inversions and foldings.
AllRecipes == {GOTZ, ELPX, EO, ET, LO, LT, PG, PZ, XG, XZ}

\* find, were the output of the recipe not compared.
find_by_input(set, produced) ==
    LET matching == {recipe \in AllRecipes : input(recipe) = set}
    IN  IF matching = {} THEN [ok |-> FALSE, recipe |-> GOTZ]
        ELSE [ok |-> TRUE,
              recipe |-> CHOOSE r \in matching : \A other \in matching : r <= other]

\* ArcosphereRecipe::find: the first recipe, by index, of this input and this
\* output.
find(set, produced) ==
    LET matching == {recipe \in AllRecipes :
                        input(recipe) = set /\ output(recipe) = produced}
    IN  IF matching = {} THEN [ok |-> FALSE, recipe |-> GOTZ]
        ELSE [ok |-> TRUE,
              recipe |-> CHOOSE r \in matching : \A other \in matching : r <= other]

\* parse::parse_recipe, from the word at an index: the recipe, and the index
\* of the word after it.
parse_recipe(tokens, index) ==
    LET consumed == parse_set(Next_word(tokens, index))
        produced == parse_set(Next_word(tokens, index + 2))
        found == find(consumed.set, produced.set)
    IN  IF ~consumed.ok \/ Next_word(tokens, index + 1).kind # "->"
           \/ ~produced.ok \/ ~found.ok
        THEN [ok |-> FALSE, recipe |-> GOTZ, next |-> index]
        ELSE [ok |-> TRUE, recipe |-> found.recipe, next |-> index + 3]

\* parse::parse_path_head: the path without its recipes, and the index of the
\* word after =>.
parse_path_head(tokens) ==
    LET path_source == parse_set(Next_word(tokens, 1))
        path_target == parse_set(Next_word(tokens, 3))
        counted == Next_word(tokens, 4).kind = "x"
        after_count == IF counted THEN 5 ELSE 4
        added == Next_word(tokens, after_count).kind = "+"
        path_catalysts == IF added
                          THEN parse_set(Next_word(tokens, after_count + 1))
                          ELSE [ok |-> TRUE, set |-> new]
        after_catalysts == IF added THEN after_count + 2 ELSE after_count
    IN  IF ~path_source.ok THEN [ok |-> FALSE, error |-> "InvalidSource"]
        ELSE IF Next_word(tokens, 2).kind # "->"
        THEN [ok |-> FALSE, error |-> "MissingArrow"]
        ELSE IF ~path_target.ok THEN [ok |-> FALSE, error |-> "InvalidTarget"]
        ELSE IF counted /\ Next_word(tokens, 4).number \notin 1 .. 255
        THEN [ok |-> FALSE, error |-> "InvalidCount"]
        ELSE IF ~path_catalysts.ok
        THEN [ok |-> FALSE, error |-> "InvalidCatalysts"]
        ELSE IF Next_word(tokens, after_catalysts).kind # "=>"
        THEN [ok |-> FALSE, error |-> "MissingEnd"]
        ELSE [ok |-> TRUE, error |-> "None",
              path |-> Path(path_source.set, path_target.set,
                            IF counted THEN Next_word(tokens, 4).number ELSE 1,
                            path_catalysts.set, <<>>),
              next |-> after_catalysts + 1]

\* FromStr for StagedPath, the loop: a recipe, then the end, or // and a
\* recipe of the same stage, or | and a recipe of the next stage.  For Path,
\* where there are no stages, // is not a separator.
RECURSIVE parse_recipes(_, _, _, _, _)
parse_recipes(tokens, index, path_recipes, cuts, is_staged) ==
    LET recipe == parse_recipe(tokens, index)
        separator == Next_word(tokens, recipe.next).kind
    IN  IF Next_word(tokens, index).kind = "|"
           \/ (is_staged /\ Next_word(tokens, index).kind = "//")
        THEN [ok |-> FALSE, error |-> "UnexpectedSeparator"]
        ELSE IF ~recipe.ok THEN [ok |-> FALSE, error |-> "InvalidRecipe"]
        ELSE IF recipe.next > Len(tokens)
        THEN [ok |-> TRUE, error |-> "None",
              recipes |-> Append(path_recipes, recipe.recipe), stages |-> cuts]
        ELSE IF is_staged /\ separator = "//"
        THEN parse_recipes(tokens, recipe.next + 1,
                           Append(path_recipes, recipe.recipe), cuts, is_staged)
        ELSE IF separator = "|"
        THEN parse_recipes(tokens, recipe.next + 1,
                           Append(path_recipes, recipe.recipe),
                           IF is_staged
                           THEN Append(cuts, Len(path_recipes) + 1) ELSE cuts,
                           is_staged)
        ELSE [ok |-> FALSE, error |-> "InvalidSeparator"]

\* FromStr for Path
path_from_str(text) ==
    LET tokens == split_whitespace(text)
        head == parse_path_head(tokens)
        tail == parse_recipes(tokens, head.next, <<>>, <<>>, FALSE)
    IN  IF ~head.ok THEN [ok |-> FALSE, error |-> "InvalidHead"]
        ELSE IF ~tail.ok THEN [ok |-> FALSE, error |-> tail.error]
        ELSE [ok |-> TRUE, error |-> "None",
              value |-> [head.path EXCEPT !.recipes = tail.recipes]]

\* FromStr for StagedPath
staged_from_str(text) ==
    LET tokens == split_whitespace(text)
        head == parse_path_head(tokens)
        tail == parse_recipes(tokens, head.next, <<>>, <<>>, TRUE)
    IN  IF ~head.ok THEN [ok |-> FALSE, error |-> "InvalidHead"]
        ELSE IF ~tail.ok THEN [ok |-> FALSE, error |-> tail.error]
        ELSE [ok |-> TRUE, error |-> "None",
              value |-> [path |-> [head.path EXCEPT !.recipes = tail.recipes],
                         stages |-> tail.stages]]

\* A path and a staged path are given to be displayed and parsed.
DisplayInit ==
    /\ recipes = SpaceExploration
    /\ source = new
    /\ target = new
    /\ configuration = InversionConfiguration
    /\ hash_order = "ascending"
    /\ pc = "display"
    /\ Started
    /\ staged \in PlanPaths
    /\ verified = NotVerified
    /\ planned = NotPlanned
    /\ parallelized = NotParallelized
    /\ parsed = NotParsed
    /\ arithmetic = NotComputed
    /\ identified = NotIdentified

\* The path and the staged path are displayed, and the texts parsed.
call_from_str ==
    /\ pc = "display"
    /\ parsed' = [path |-> path_from_str(display_path(staged.path)),
                  staged |-> staged_from_str(display_staged(staged))]
    /\ pc' = "parsed"
    /\ UNCHANGED <<request, selection, call, exploration, search, fold_result,
                   outcome, dispatched, staged, verified, planned,
                   parallelized, arithmetic, identified>>

DisplayNext == call_from_str

DisplaySpec == DisplayInit /\ [][DisplayNext]_vars

\* --------------------------------------------------------------------------
\* The operations of Set, on counts of 8 bits
\* --------------------------------------------------------------------------

\* u8::MAX
U8_MAX == 255

\* Set::insert: strict_add of 1 to the count of the sphere.
set_insert(set, sphere) ==
    IF set[sphere] + 1 > U8_MAX THEN Computed(TRUE, set)
    ELSE Computed(FALSE, [set EXCEPT ![sphere] = @ + 1])

\* Set::remove: strict_sub of 1 from the count of the sphere.
set_remove(set, sphere) ==
    IF set[sphere] < 1 THEN Computed(TRUE, set)
    ELSE Computed(FALSE, [set EXCEPT ![sphere] = @ - 1])

\* add_assign, were the counts added with wrapping_add.
add_assign_wrapping(set, other) ==
    Computed(FALSE, [a \in Arcospheres |-> (set[a] + other[a]) % (U8_MAX + 1)])

\* AddAssign for Set: strict_add of each count.
add_assign(set, other) ==
    IF \E a \in Arcospheres : set[a] + other[a] > U8_MAX
    THEN Computed(TRUE, set)
    ELSE Computed(FALSE, [a \in Arcospheres |-> set[a] + other[a]])

\* SubAssign for Set: saturating_sub of each count.
sub_assign(set, other) ==
    Computed(FALSE, [a \in Arcospheres |->
                        IF set[a] >= other[a] THEN set[a] - other[a] ELSE 0])

\* MulAssign for Set: strict_mul of each count.
mul_assign(set, other) ==
    IF \E a \in Arcospheres : set[a] * other > U8_MAX
    THEN Computed(TRUE, set)
    ELSE Computed(FALSE, [a \in Arcospheres |-> set[a] * other])

\* The counts of a sphere in the operands: small ones, and some for which an
\* operation goes beyond 8 bits.
OperandCounts == {0, 1, 2, 127, 128, 254, 255}

\* The operands which are sets: of Epsilon and Gamma only.
OperandSets ==
    {[a \in Arcospheres |->
         IF a = Epsilon THEN m ELSE IF a = Gamma THEN n ELSE 0] :
        m \in OperandCounts, n \in OperandCounts}

\* The operands which are numbers.
OperandNumbers == {0, 1, 2, 3, 255}

\* Two sets, a number and a sphere are given.
ArithmeticInit ==
    /\ recipes = SpaceExploration
    /\ source = new
    /\ target = new
    /\ configuration = InversionConfiguration
    /\ hash_order = "ascending"
    /\ pc = "compute"
    /\ Started
    /\ staged = [path |-> Path(new, new, ONE, new, <<>>), stages |-> <<>>]
    /\ verified = NotVerified
    /\ planned = NotPlanned
    /\ parallelized = NotParallelized
    /\ parsed = NotParsed
    /\ identified = NotIdentified
    /\ \E a \in OperandSets, b \in OperandSets, k \in OperandNumbers,
          sphere \in {Epsilon, Gamma} :
           arithmetic = [NotComputed EXCEPT !.a = a, !.b = b, !.k = k,
                                            !.sphere = sphere]

\* Each operation of Set is called on the operands.
call_operations ==
    /\ pc = "compute"
    /\ arithmetic' =
           [arithmetic EXCEPT
               !.insert = set_insert(arithmetic.a, arithmetic.sphere),
               !.remove = set_remove(arithmetic.a, arithmetic.sphere),
               !.add = add_assign(arithmetic.a, arithmetic.b),
               !.sub = sub_assign(arithmetic.a, arithmetic.b),
               !.mul = mul_assign(arithmetic.a, arithmetic.k)]
    /\ pc' = "computed"
    /\ UNCHANGED <<request, selection, call, exploration, search, fold_result,
                   outcome, dispatched, staged, verified, planned,
                   parallelized, parsed, identified>>

ArithmeticNext == call_operations

ArithmeticSpec == ArithmeticInit /\ [][ArithmeticNext]_vars

\* --------------------------------------------------------------------------
\* ArcosphereRecipe::find, on its own
\* --------------------------------------------------------------------------

\* The sets given to find: the inputs and the outputs of the recipes, and
\* some which are neither.
FindSets ==
    {input(recipe) : recipe \in AllRecipes}
        \union {output(recipe) : recipe \in AllRecipes}
        \union {new, from_spheres(<<Epsilon>>),
                from_spheres(<<Epsilon, Epsilon, Omega>>)}

\* An input and an output are given.
FindInit ==
    /\ recipes = SpaceExploration
    /\ source = new
    /\ target = new
    /\ configuration = InversionConfiguration
    /\ hash_order = "ascending"
    /\ pc = "find"
    /\ Started
    /\ staged = [path |-> Path(new, new, ONE, new, <<>>), stages |-> <<>>]
    /\ verified = NotVerified
    /\ planned = NotPlanned
    /\ parallelized = NotParallelized
    /\ parsed = NotParsed
    /\ arithmetic = NotComputed
    /\ \E set \in FindSets, produced \in FindSets :
           identified = [NotIdentified EXCEPT !.input = set, !.output = produced]

\* ArcosphereRecipe::find is called on the input and the output.
call_find ==
    /\ pc = "find"
    /\ identified' =
           [identified EXCEPT !.found = find(identified.input, identified.output)]
    /\ pc' = "found"
    /\ UNCHANGED <<request, selection, call, exploration, search, fold_result,
                   outcome, dispatched, staged, verified, planned,
                   parallelized, parsed, arithmetic>>

FindNext == call_find

FindSpec == FindInit /\ [][FindNext]_vars

\* --------------------------------------------------------------------------
\* Properties
\* --------------------------------------------------------------------------

\* C1: every path solve returns is accepted by Verifier::verify: replayed from
\* count * source + catalysts, each recipe finds its input and the last step is
\* count * target + catalysts.  This holds of the paths found by folding and of
\* those with the inversion first, last or in the middle.
C1_ReturnedPathsVerify ==
    outcome.ok => \A k \in DOMAIN outcome.paths : verify(outcome.paths[k]) = "Ok"

\* solve has returned paths with an inversion between foldings, and paths from
\* solve_by_middle_inversion among them.
C1_Witness ==
    /\ pc = "done"
    /\ mode = "middle"
    /\ outcome.ok
    /\ \E k \in DOMAIN outcome.paths :
           \E j \in 2 .. (Len(outcome.paths[k].recipes) - 1) :
               outcome.paths[k].recipes[j] = inversion

\* Whether goal is one of frontier, or is reached from it by at most steps
\* foldings.
RECURSIVE within(_, _, _)
within(frontier, goal, steps) ==
    \/ goal \in frontier
    \/ /\ steps > 0
       /\ frontier # {}
       /\ within(reached("forward", frontier), goal, steps - 1)

\* C2: the paths FoldSearcher::solve returns for its catalysts have the least
\* number of recipes of all sequences of foldings from source + catalysts to
\* target + catalysts, a least number of 1 included.
C2_ShortestForCatalysts ==
    search_result.ok =>
        \A k \in DOMAIN search_result.paths :
            ~within({add(searcher.source, searcher.source_catalysts)},
                    add(searcher.target, searcher.target_catalysts),
                    Len(search_result.paths[k].recipes) - 1)

\* The sets of the given number of spheres.
SetsOfLen(number) == {set \in [Arcospheres -> 0 .. number] : len(set) = number}

\* The results of the recipes, foldings and inversions, which apply to one of
\* inputs.
applied(inputs) ==
    UNION {{add(sub(an_input, input(recipe)), output(recipe)) :
               recipe \in {r \in Range(foldings) \cup Range(inversions) :
                              is_subset_of(input(r), an_input)}} :
           an_input \in inputs}

\* Whether goal is one of frontier, or is reached from it by at most steps
\* recipes.
RECURSIVE solvable(_, _, _)
solvable(frontier, goal, steps) ==
    \/ goal \in frontier
    \/ /\ steps > 0
       /\ frontier # {}
       /\ solvable(applied(frontier), goal, steps - 1)

\* C3: when solve returns paths with catalysts of some size, no smaller set of
\* catalysts, of at least minimum_catalysts spheres and the empty set included,
\* admits a solution of at most maximum_recipes recipes.
C3_NoSolutionWithFewerCatalysts ==
    (pc = "done" /\ outcome.ok) =>
        \A k \in DOMAIN outcome.paths :
            \A fewer \in configuration.minimum_catalysts ..
                             (len(outcome.paths[k].catalysts) - 1) :
                \A catalysts \in SetsOfLen(fewer) :
                    ~solvable({add(mul(source, outcome.paths[k].count), catalysts)},
                              add(mul(target, outcome.paths[k].count), catalysts),
                              configuration.maximum_recipes)

\* C4: when source and target differ in length, solve returns
\* Err(PreservationError) at once: solve_by_fold and solve_by_inversion are
\* not called, and no task is handed to the executor.
C4_PreservationError ==
    len(source) # len(target) =>
        /\ pc \in {"solve", "done"}
        /\ mode = "none"
        /\ dispatched = 0
        /\ pc = "done" => outcome = [ok |-> FALSE, paths |-> <<>>,
                                     error |-> "PreservationError"]

\* solve has returned for a source and a target of different lengths.
C4_Witness == pc = "done" /\ len(source) # len(target) /\ ~outcome.ok

\* C5: solve(s, s) returns one path from s to s, with a count of 1, no
\* catalysts and no recipes, and runs no search.
C5_TrivialPath ==
    source = target =>
        /\ pc \in {"solve", "done"}
        /\ dispatched = 0
        /\ pc = "done" =>
               outcome = [ok |-> TRUE, error |-> "None",
                          paths |-> <<[source |-> source, target |-> source,
                                       count |-> 1, catalysts |-> new,
                                       recipes |-> <<>>]>>]

\* solve has returned for a source equal to the target.
C5_Witness == pc = "done" /\ source = target /\ Len(outcome.paths) = 1

\* C6: when a recipe, folding or inversion, has source as input and target as
\* output, solve returns one path made of this recipe, with a count of 1 and
\* no catalysts.
C6_SingleRecipePath ==
    \A recipe \in Range(foldings) \cup Range(inversions) :
        (pc = "done" /\ source = input(recipe) /\ target = output(recipe)) =>
            outcome = [ok |-> TRUE, error |-> "None",
                       paths |-> <<[source |-> source, target |-> target,
                                    count |-> 1, catalysts |-> new,
                                    recipes |-> <<recipe>>]>>]

\* solve has returned for the input and the output of a folding.
C6_Witness ==
    /\ pc = "done"
    /\ \E recipe \in Range(foldings) :
           source = input(recipe) /\ target = output(recipe)
    /\ Len(outcome.paths) = 1

\* The number of paths of the first number of task_outcomes.
RECURSIVE paths_before(_, _)
paths_before(task_outcomes, number) ==
    IF number = 0 THEN 0
    ELSE paths_before(task_outcomes, number - 1)
             + Len(task_outcomes[number].paths)

\* The paths solve is expected to return for EP -> LX: with the catalyst
\* Gamma PG -> XO then EO -> LG, and with the catalyst Omega EO -> LG then
\* PG -> XO.
EP_LX_paths ==
    <<[source |-> from_spheres(<<Epsilon, Phi>>),
       target |-> from_spheres(<<Lambda, Xi>>),
       count |-> 1,
       catalysts |-> from_spheres(<<Gamma>>),
       recipes |-> <<PG, EO>>],
      [source |-> from_spheres(<<Epsilon, Phi>>),
       target |-> from_spheres(<<Lambda, Xi>>),
       count |-> 1,
       catalysts |-> from_spheres(<<Omega>>),
       recipes |-> <<EO, PG>>]>>

\* C7: at the first number of catalysts for which a task succeeds, the paths
\* of every successful task are returned, in the order in which the catalysts
\* are generated; a task returns one path for each state its two searches have
\* both reached when they meet; and for EP -> LX solve returns the path with
\* the catalyst Gamma, then the path with the catalyst Omega.
C7_AllPathsInCatalystOrder ==
    /\ search_result.ok =>
           /\ Len(search_result.paths) =
                  Cardinality(DOMAIN forward \cap DOMAIN backward)
           /\ \A k \in DOMAIN search_result.paths :
                  search_result.paths[k].catalysts = searcher.source_catalysts
    /\ (/\ pc = "fold_return"
        /\ fold_result.ok
        /\ \A folding \in Range(foldings) :
               fold_source # input(folding) \/ fold_target # output(folding)) =>
           /\ Len(fold_result.paths) = paths_before(task_results, tasks)
           /\ \A k \in DOMAIN task_results :
                  \A j \in DOMAIN task_results[k].paths :
                      fold_result.paths[paths_before(task_results, k - 1) + j]
                          = task_results[k].paths[j]
           /\ mode # "middle" =>
                  \A k \in DOMAIN fold_result.paths :
                      len(fold_result.paths[k].catalysts) = i
    /\ (/\ pc = "done"
        /\ source = from_spheres(<<Epsilon, Phi>>)
        /\ target = from_spheres(<<Lambda, Xi>>)
        /\ configuration.maximum_catalysts >= 1
        /\ configuration.maximum_recipes >= 3) =>
           outcome = [ok |-> TRUE, error |-> "None", paths |-> EP_LX_paths]

\* solve has returned the two paths for EP -> LX.
C7_Witness ==
    /\ pc = "done"
    /\ source = from_spheres(<<Epsilon, Phi>>)
    /\ target = from_spheres(<<Lambda, Xi>>)
    /\ outcome.ok
    /\ Len(outcome.paths) = 2
    /\ outcome.paths[1].catalysts # outcome.paths[2].catalysts

\* C8: the paths solve returns all have the same number of recipes; paths with
\* more recipes than the shortest found are not returned.
C8_SameNumberOfRecipes ==
    (pc = "done" /\ outcome.ok) =>
        \A j, k \in DOMAIN outcome.paths :
            Len(outcome.paths[j].recipes) = Len(outcome.paths[k].recipes)

\* C9: solve never returns the same path twice.
C9_NoDuplicatePath ==
    (pc = "done" /\ outcome.ok) =>
        \A j, k \in DOMAIN outcome.paths :
            j # k => outcome.paths[j] # outcome.paths[k]

\* task_outcomes with the results at index and at index + 1 exchanged.
exchanged(task_outcomes, index) ==
    [k \in DOMAIN task_outcomes |->
        IF k = index THEN task_outcomes[index + 1]
        ELSE IF k = index + 1 THEN task_outcomes[index]
        ELSE task_outcomes[k]]

\* C10: the paths and the error the exploration loop gathers from the results
\* of the tasks are the same in whichever order the executor returns the
\* results: exchanging two results changes neither.
C10_IndependentOfResultOrder ==
    (pc = "execute" /\ Len(task_results) = tasks) =>
        \A index \in 1 .. (tasks - 1) :
            collect(exchanged(task_results, index), <<>>, last_error)
                = collect(task_results, <<>>, last_error)

\* C11: no path solve returns has more than maximum_recipes recipes, whether
\* maximum_recipes is odd or even, and whether the path is made of foldings
\* only or holds an inversion.
C11_AtMostMaximumRecipes ==
    (pc = "done" /\ outcome.ok) =>
        \A k \in DOMAIN outcome.paths :
            Len(outcome.paths[k].recipes) <= configuration.maximum_recipes

\* C12: solve never hangs: a search never runs more than maximum_iterations
\* rounds, and the walk from a meeting state along the maps of the searches
\* always ends, cycles of foldings back to the source or the target
\* notwithstanding.  The rounds and the walks are the only loops of solve
\* whose number of iterations is not fixed when the loop starts.
C12_NeverHangs ==
    /\ pc # "hung"
    /\ pc = "search" => iteration <= maximum_iterations

\* The states reached from frontier by foldings, any number of them, seen
\* included.
RECURSIVE closure(_, _)
closure(seen, frontier) ==
    IF frontier = {} THEN seen
    ELSE closure(seen \cup frontier,
                 reached("forward", frontier) \ (seen \cup frontier))

\* C13: a search returns NotWithFoldings only when no sequence of foldings, of
\* any length, leads from source + catalysts to target + catalysts.
C13_NotWithFoldingsIsDefinitive ==
    (search_result.error = "NotWithFoldings") =>
        add(searcher.target, searcher.target_catalysts)
            \notin closure({}, {add(searcher.source, searcher.source_catalysts)})

\* The tasks of the current number of catalysts which returned a definitive
\* error.
definitive_tasks ==
    {k \in DOMAIN task_results :
        ~task_results[k].ok /\ is_definitive(task_results[k].error)}

\* C14: once a task has returned a definitive error, solve returns that error:
\* the exploration does not go on to one more catalyst, and the paths of the
\* other tasks are not returned.
C14_DefinitiveErrorAborts ==
    (mode = "solve" /\ tasks > 0 /\ Len(task_results) = tasks
        /\ definitive_tasks # {}) =>
        /\ pc \in {"execute", "explore", "fold_return", "done"}
        /\ pc = "explore" => i > configuration.maximum_catalysts
        /\ pc = "fold_return" =>
               \E k \in definitive_tasks :
                   fold_result = Err(task_results[k].error)
        /\ pc = "done" =>
               \E k \in definitive_tasks : outcome = Err(task_results[k].error)

\* The tasks of the current number of catalysts whose error is kept in
\* last_error, and those which returned paths.
kept_tasks ==
    {k \in DOMAIN task_results :
        /\ ~task_results[k].ok
        /\ \/ is_definitive(task_results[k].error)
           \/ task_results[k].error = "OutsideRecipes"}

succeeded_tasks == {k \in DOMAIN task_results : task_results[k].ok}

\* C14, as the code has it: a definitive error of a task does not end the
\* exploration.  The error of the last task to return a definitive error or
\* OutsideRecipes is kept in last_error; the paths of the tasks which
\* succeeded are returned whatever the errors of the others; the exploration
\* goes on to one more catalyst when no task succeeded; and the error kept is
\* returned only when no number of catalysts is left.
C14_DefinitiveErrorIsKept ==
    (/\ mode = "solve"
     /\ tasks > 0
     /\ Len(task_results) = tasks
     /\ pc \in {"explore", "fold_return", "done"}) =>
        /\ kept_tasks # {} =>
               \E k \in kept_tasks :
                   /\ \A j \in kept_tasks : j <= k
                   /\ last_error = task_results[k].error
        /\ pc = "explore" => succeeded_tasks = {}
        /\ pc = "fold_return" =>
               IF succeeded_tasks # {} THEN fold_result.ok
               ELSE /\ i > configuration.maximum_catalysts
                    /\ fold_result = Err(IF last_error = "None"
                                         THEN "OutsideCatalysts" ELSE last_error)
        /\ pc = "done" => (outcome.ok <=> succeeded_tasks # {})

\* solve has returned paths although a task returned a definitive error.
C14_Witness ==
    /\ pc = "done"
    /\ mode = "solve"
    /\ outcome.ok
    /\ definitive_tasks # {}

\* C15: for every number of catalysts explored, zero included, one task is
\* dispatched for each set of that many spheres, and no two tasks have the
\* same catalysts.
C15_OneTaskPerCatalysts ==
    (pc = "execute" /\ mode # "middle") =>
        /\ tasks = Cardinality(SetsOfLen(i))
        /\ \A j, k \in 1 .. tasks :
               j # k => searchers[j].source_catalysts
                            # searchers[k].source_catalysts


\* The number of negatives which a request, or a recipe, changes.
delta(from, to) ==
    IF count_negatives(from) > count_negatives(to)
    THEN count_negatives(from) - count_negatives(to)
    ELSE count_negatives(to) - count_negatives(from)

\* solve_by_inversion has selected an inversion for the request.
Selected ==
    \/ pc = "inversion_first"
    \/ pc = "done" /\ outcome = Err("OutsideInversions")

\* C16: the count and apps which select_inversion returns are such that count
\* times the difference of category between source and target is apps times
\* the difference of category of one application of the inversion; count is
\* the least positive number for which there is such an apps; and when the two
\* differences are equal, count and apps are 1.
C16_LeastCount ==
    Selected =>
        LET target_delta == delta(source, target)
            recipe_delta == delta(input(inversion), output(inversion))
        IN  /\ count >= 1
            /\ apps >= 1
            /\ count * target_delta = apps * recipe_delta
            /\ \A c \in 1 .. count - 1 : (c * target_delta) % recipe_delta # 0
            /\ target_delta = recipe_delta => count = 1 /\ apps = 1

C16_Witness ==
    /\ pc = "done"
    /\ outcome = Err("OutsideInversions")
    /\ delta(source, target) = 6
    /\ count = 2
    /\ apps = 3

\* The polarity of the inversions which turn the source into the target.
required ==
    IF count_negatives(source) > count_negatives(target)
    THEN "Positive" ELSE "Negative"

\* The case of C17: as many arcospheres in the source as in the target, not as
\* many negatives, no inversion from the source to the target, and no
\* inversion of the required polarity.
NoInversion ==
    /\ len(source) = len(target)
    /\ count_negatives(source) # count_negatives(target)
    /\ \A k \in DOMAIN inversions :
           source # input(inversions[k]) \/ target # output(inversions[k])
    /\ \A k \in DOMAIN inversions : polarity(inversions[k]) # required

\* C17: when the source and the target, of as many arcospheres, differ in
\* their numbers of negatives, no inversion turns the source into the target
\* in one application, and the recipe set has no inversion of the required
\* polarity, solve returns NotWithInversions, and no search is run.
C17_NotWithInversions ==
    NoInversion =>
        /\ pc \in {"solve", "solve_by_inversion", "done"}
        /\ pc = "done" => outcome = Err("NotWithInversions")
        /\ dispatched = 0
        /\ tasks = 0

C17_Witness ==
    /\ NoInversion
    /\ pc = "done"
    /\ outcome = Err("NotWithInversions")
    /\ inversions # <<>>


\* The state after the first number recipes of a path, each taken from the
\* state before it and its output added.
RECURSIVE state_after(_, _)
state_after(path, number) ==
    IF number = 0 THEN add(mul(path.source, path.count), path.catalysts)
    ELSE add(sub(state_after(path, number - 1), input(path.recipes[number])),
             output(path.recipes[number]))

\* The recipes of a path whose input is not in the state before them, by
\* their index from 1.
failing(path) ==
    {k \in DOMAIN path.recipes :
        ~is_subset_of(input(path.recipes[k]), state_after(path, k - 1))}

\* The state after all the recipes of a path.
final(path) == state_after(path, Len(path.recipes))

\* C18: verify returns Ok exactly when every recipe of the path is of the
\* recipe set, each finds its input in the state before it, count * target is
\* in the last state, and the last state without count * target is the
\* catalysts; when only the third fails it returns FailedTarget with the last
\* state, and when only the fourth fails FailedCatalysts with the last state
\* without count * target.
C18_VerifyOk ==
    pc = "verified" =>
        LET path == staged.path
            replays == unknown(path) = {} /\ failing(path) = {}
            wanted == mul(path.target, path.count)
            reaches == is_subset_of(wanted, final(path))
            restores == sub(final(path), wanted) = path.catalysts
        IN  /\ verified.error = "Ok" <=> (replays /\ reaches /\ restores)
            /\ (replays /\ ~reaches) =>
                   /\ verified.error = "FailedTarget"
                   /\ verified.set = final(path)
            /\ (replays /\ reaches /\ ~restores) =>
                   /\ verified.error = "FailedCatalysts"
                   /\ verified.set = sub(final(path), wanted)
            /\ verified.error = "FailedTarget" => (replays /\ ~reaches)
            /\ verified.error = "FailedCatalysts" =>
                   (replays /\ reaches /\ ~restores)

C18_Witness ==
    /\ pc = "verified"
    /\ verified.error = "Ok"
    /\ Len(staged.path.recipes) = 2
    /\ staged.path.catalysts # new

\* The first recipe of the recipe set whose input is not in the state before
\* it, by its index from 1.
first_failing(path) ==
    CHOOSE k \in failing(path) \ unknown(path) :
        \A j \in failing(path) \ unknown(path) : k <= j

\* C19, as claimed: when a recipe of the recipe set does not find its input in
\* the state before it, verify returns FailedApplication with the index of the
\* first such recipe and the state before it.
C19_FailedApplication ==
    (pc = "verified" /\ failing(staged.path) \ unknown(staged.path) # {}) =>
        /\ verified.error = "FailedApplication"
        /\ verified.index = first_failing(staged.path) - 1
        /\ verified.set = state_after(staged.path, first_failing(staged.path) - 1)

\* C19, amended: when every recipe of the path is of the recipe set and one
\* does not find its input in the state before it, verify returns
\* FailedApplication with the index of the first such recipe and the state
\* before it; when a recipe of the path is not of the recipe set, verify
\* returns UnknownRecipe with the index of the first such recipe, whether or
\* not the recipes find their input.
C19_FailedApplicationOfKnown ==
    pc = "verified" =>
        /\ (unknown(staged.path) = {} /\ failing(staged.path) # {}) =>
               /\ verified.error = "FailedApplication"
               /\ verified.index = first_failing(staged.path) - 1
               /\ verified.set =
                      state_after(staged.path, first_failing(staged.path) - 1)
        /\ unknown(staged.path) # {} =>
               /\ verified.error = "UnknownRecipe"
               /\ \A k \in unknown(staged.path) : verified.index <= k - 1
               /\ verified.index + 1 \in unknown(staged.path)

C19_Witness ==
    /\ pc = "verified"
    /\ verified.error = "FailedApplication"
    /\ verified.index = 1
    /\ failing(staged.path) = {2}


\* The state after the first number stages of a staged path, each taken from
\* the state before it and its output added.
RECURSIVE stage_after(_, _)
stage_after(path, number) ==
    IF number = 0
    THEN add(mul(path.path.source, path.path.count), path.path.catalysts)
    ELSE add(sub(stage_after(path, number - 1),
                 stage_input(stages(path)[number])),
             stage_output(stages(path)[number]))

\* The stages of a staged path whose input is not in the state before them, by
\* their index from 1.
failing_stages(path) ==
    {k \in DOMAIN stages(path) :
        ~is_subset_of(stage_input(stages(path)[k]), stage_after(path, k - 1))}

\* C20: plan returns FailedApplication for the first stage whose input is not
\* in the state before it, with the index of the stage, that state and that
\* input; FailedTarget when count * target is not in the last state;
\* FailedCatalysts when the last state without count * target is not the
\* catalysts; and otherwise Ok, with one description for each stage.
C20_PlanReplaysStages ==
    pc = "planned" =>
        LET last == stage_after(staged, Len(stages(staged)))
            wanted == mul(staged.path.target, staged.path.count)
        IN  IF failing_stages(staged) # {}
            THEN LET first == CHOOSE k \in failing_stages(staged) :
                                  \A j \in failing_stages(staged) : k <= j
                 IN  /\ planned.error = "FailedApplication"
                     /\ planned.index = first - 1
                     /\ planned.set = stage_after(staged, first - 1)
                     /\ planned.input = stage_input(stages(staged)[first])
            ELSE IF ~is_subset_of(wanted, last)
            THEN planned.error = "FailedTarget" /\ planned.set = last
            ELSE IF sub(last, wanted) # staged.path.catalysts
            THEN /\ planned.error = "FailedCatalysts"
                 /\ planned.set = sub(last, wanted)
            ELSE /\ planned.error = "Ok"
                 /\ Len(planned.stages) = Len(stages(staged))

C20_Witness ==
    /\ pc = "planned"
    /\ planned.error = "Ok"
    /\ Len(staged.path.recipes) = 2
    /\ Len(planned.stages) = 1


\* The number of spheres of the description of a stage: StageDescription::len.
description_len(description) ==
    len(description.remainder) + len(description.extracted)

\* C21, as claimed: in a plan, the remainder and the extracted of every stage
\* have together as many spheres as those of every other stage.
C21_SameRemainderAndExtracted ==
    (pc = "planned" /\ planned.error = "Ok") =>
        \A j, k \in DOMAIN planned.stages :
            description_len(planned.stages[j]) = description_len(planned.stages[k])

\* C21, amended: in a plan, the remainder and the extracted of two stages have
\* together as many spheres when the inputs of the two stages have as many
\* spheres, and of two stages the one with the larger input has that many
\* spheres fewer in its remainder and extracted.
C21_SameWithInput ==
    (pc = "planned" /\ planned.error = "Ok") =>
        \A j, k \in DOMAIN planned.stages :
            description_len(planned.stages[j]) - description_len(planned.stages[k])
                = len(stage_input(stages(staged)[k]))
                      - len(stage_input(stages(staged)[j]))

C21_Witness ==
    /\ pc = "planned"
    /\ planned.error = "Ok"
    /\ Len(planned.stages) = 2
    /\ description_len(planned.stages[1]) # description_len(planned.stages[2])

\* C22: in a plan, the input, the remainder and the extracted of every stage
\* have together as many spheres as count * source + catalysts.
C22_SameNumberOfSpheres ==
    (pc = "planned" /\ planned.error = "Ok") =>
        \A k \in DOMAIN planned.stages :
            len(stage_input(stages(staged)[k])) + len(planned.stages[k].remainder)
                    + len(planned.stages[k].extracted)
                = len(add(mul(staged.path.source, staged.path.count),
                          staged.path.catalysts))

C22_Witness ==
    /\ pc = "planned"
    /\ planned.error = "Ok"
    /\ Len(planned.stages) = 2
    /\ staged.path.catalysts # new
    /\ planned.stages[2].extracted # new


\* The staged path which parallelize returned.
returned == [path |-> parallelized.path, stages |-> parallelized.stages]

\* How often a recipe is in a sequence of recipes.
occurrences(path_recipes, recipe) ==
    Cardinality({k \in DOMAIN path_recipes : path_recipes[k] = recipe})

\* C23: of a path which verifies, parallelize returns, and does not panic, a
\* staged path each stage of which finds the inputs of all its recipes in the
\* state after the stages before it, and whose last state is
\* count * target + catalysts.
C23_ParallelizeIsValid ==
    (pc = "parallelized" /\ verify(staged.path) = "Ok") =>
        /\ ~parallelized.panic
        /\ failing_stages(returned) = {}
        /\ stage_after(returned, Len(stages(returned)))
               = add(mul(staged.path.target, staged.path.count),
                     staged.path.catalysts)

C23_Witness ==
    /\ pc = "parallelized"
    /\ verify(staged.path) = "Ok"
    /\ ~parallelized.panic
    /\ Len(staged.path.recipes) = 3
    /\ parallelized.stages = <<2>>

\* C24: of a path which verifies, parallelize returns the recipes of the path,
\* each as often as the path has it; the recipes of each stage are in
\* ascending order; no stage is empty; and the starts of the stages kept are
\* in 1 .. len - 1, each greater than the one before it.
C24_ParallelizeIsNormalized ==
    (pc = "parallelized" /\ verify(staged.path) = "Ok") =>
        LET given == staged.path.recipes
            sorted == parallelized.path.recipes
            cuts == parallelized.stages
        IN  /\ Len(sorted) = Len(given)
            /\ \A recipe \in Range(given) \cup Range(sorted) :
                   occurrences(sorted, recipe) = occurrences(given, recipe)
            /\ \A k \in DOMAIN stages(returned) :
                   \A j \in 1 .. Len(stages(returned)[k]) - 1 :
                       stages(returned)[k][j] <= stages(returned)[k][j + 1]
            /\ given # <<>> =>
                   \A k \in DOMAIN stages(returned) : stages(returned)[k] # <<>>
            /\ given = <<>> => cuts = <<>>
            /\ \A k \in DOMAIN cuts : cuts[k] \in 1 .. Len(given) - 1
            /\ \A k \in 1 .. Len(cuts) - 1 : cuts[k] < cuts[k + 1]

C24_Witness ==
    /\ pc = "parallelized"
    /\ verify(staged.path) = "Ok"
    /\ staged.path.recipes = <<XG, EO, LO>>
    /\ parallelized.path.recipes = <<EO, XG, LO>>

\* C25, as claimed: parallelize puts each recipe in the first of the stages
\* with recipes whose remaining has the input of the recipe, and in a new last
\* stage only when no stage with recipes has it.
C25_FirstStageWithInput ==
    (pc = "parallelized" /\ verify(staged.path) = "Ok") =>
        \A k \in DOMAIN parallelized.placements :
            LET placement == parallelized.placements[k]
                qualifying == placement.having \cap placement.filled
            IN  IF qualifying = {}
                THEN placement.earliest \notin placement.filled
                ELSE /\ placement.earliest \in qualifying
                     /\ \A j \in qualifying : placement.earliest <= j

\* C25, amended: parallelize puts each recipe in the first stage such that the
\* remaining of this stage and of every stage after it has the input of the
\* recipe, which is the stage after the last stage without the input; and in a
\* new last stage when the last stage with recipes is without the input, even
\* if an earlier stage has it.
C25_AfterLastStageWithoutInput ==
    (pc = "parallelized" /\ verify(staged.path) = "Ok") =>
        \A k \in DOMAIN parallelized.placements :
            LET placement == parallelized.placements[k]
                last == Cardinality(placement.filled)
            IN  /\ placement.earliest \in 0 .. last
                /\ \A j \in placement.earliest .. last : j \in placement.having
                /\ placement.earliest > 0 =>
                       placement.earliest - 1 \notin placement.having
                /\ placement.earliest = last <=>
                       (last = 0 \/ last - 1 \notin placement.having)

C25_Witness ==
    /\ pc = "parallelized"
    /\ verify(staged.path) = "Ok"
    /\ \E k \in DOMAIN parallelized.placements :
           /\ parallelized.placements[k].earliest = 3
           /\ 0 \in parallelized.placements[k].having


\* C26: the text which Display gives of a path, and of a staged path, is
\* parsed, and the value parsed is the path, or the staged path, displayed.
C26_DisplayRoundTrip ==
    pc = "parsed" =>
        /\ parsed.path.ok
        /\ parsed.path.value = staged.path
        /\ parsed.staged.ok
        /\ parsed.staged.value = staged


\* C27: when b is a subset of a, a - b with b added is a; and when b is not
\* a subset of a, a - b is an abort, no set being returned.
C27_SubIsExactOrAborts ==
    pc = "computed" =>
        IF is_subset_of(arithmetic.b, arithmetic.a)
        THEN /\ ~arithmetic.sub.panic
             /\ add_assign(arithmetic.sub.set, arithmetic.b)
                    = Computed(FALSE, arithmetic.a)
        ELSE arithmetic.sub.panic

\* C28: insert, + and the multiplication by a number abort when a count would
\* be more than 255, and no count wraps; otherwise the set returned has
\* len + 1, len(a) + len(b) and k * len spheres.
C28_NoWrap ==
    pc = "computed" =>
        /\ IF arithmetic.a[arithmetic.sphere] + 1 > 255
           THEN arithmetic.insert.panic
           ELSE /\ ~arithmetic.insert.panic
                /\ len(arithmetic.insert.set) = len(arithmetic.a) + 1
        /\ IF \E a \in Arcospheres : arithmetic.a[a] + arithmetic.b[a] > 255
           THEN arithmetic.add.panic
           ELSE /\ ~arithmetic.add.panic
                /\ len(arithmetic.add.set) = len(arithmetic.a) + len(arithmetic.b)
        /\ IF \E a \in Arcospheres : arithmetic.a[a] * arithmetic.k > 255
           THEN arithmetic.mul.panic
           ELSE /\ ~arithmetic.mul.panic
                /\ len(arithmetic.mul.set) = arithmetic.k * len(arithmetic.a)

C28_Witness ==
    /\ pc = "computed"
    /\ arithmetic.add.panic
    /\ ~arithmetic.insert.panic
    /\ arithmetic.mul = Computed(FALSE, mul(arithmetic.a, 2))
    /\ arithmetic.a[Epsilon] = 127


\* C29: find of the input and the output of a recipe returns this recipe; no
\* two recipes have the same input and the same output; and find of an input
\* and an output which are those of no recipe returns UnknownRecipe.
C29_FindIsTheRecipe ==
    /\ \A r \in AllRecipes : \A other \in AllRecipes :
           input(r) = input(other) /\ output(r) = output(other) => r = other
    /\ pc = "found" =>
           /\ \A r \in AllRecipes :
                  identified.input = input(r) /\ identified.output = output(r)
                      => identified.found = [ok |-> TRUE, recipe |-> r]
           /\ (\A r \in AllRecipes :
                   identified.input # input(r) \/ identified.output # output(r))
                  => ~identified.found.ok

C29_Witness ==
    /\ pc = "found"
    /\ identified.input = from_spheres(<<Xi, Zeta>>)
    /\ identified.output = from_spheres(<<Phi, Theta>>)
    /\ identified.found = [ok |-> TRUE, recipe |-> XZ]

\* C30: a folding recipe has as many negative spheres (E, L, P, X) in its
\* output as in its input, and as many positive ones (G, O, T, Z); an
\* inversion recipe has as many negative spheres in its output as positive
\* ones in its input, and as many positive ones as negative ones in its
\* input; the input and the output of a recipe have the same number of
\* spheres.
C30_FoldingsKeepInversionsSwap ==
    pc = "found" /\ identified.found.ok =>
        LET r == identified.found.recipe
        IN  /\ r \notin {GOTZ, ELPX} =>
                   /\ count_negatives(output(r)) = count_negatives(input(r))
                   /\ count_positives(output(r)) = count_positives(input(r))
            /\ r \in {GOTZ, ELPX} =>
                   /\ count_negatives(output(r)) = count_positives(input(r))
                   /\ count_positives(output(r)) = count_negatives(input(r))
            /\ len(output(r)) = len(input(r))

C30_Witness ==
    /\ pc = "found"
    /\ identified.found = [ok |-> TRUE, recipe |-> ELPX]
    /\ count_negatives(identified.input) = 4
    /\ count_positives(identified.output) = 4



\* C31: in every round of a search, source + catalysts is never a key of
\* forward and target + catalysts is never a key of backward, also when a
\* cycle of foldings leads back to them.
C31_StartIsNeverKnown ==
    /\ add(searcher.source, searcher.source_catalysts) \notin DOMAIN forward
    /\ add(searcher.target, searcher.target_catalysts) \notin DOMAIN backward



\* C32: the candidates generated for the search with the inversion in the
\* middle have the number of spheres, of negative spheres and of positive
\* spheres of count * source, whether count * source has the input of the
\* inversion or not; so the assertions on the polarities never fail, and
\* solve does not panic.
C32_CandidatesMatchTheSource ==
    /\ mode = "middle" => candidates_match(source, count, inversion)
    /\ pc # "panicked"



\* The case of C33: as many arcospheres in the source as in the target, no
\* inversion from the source to the target, an inversion of the required
\* polarity, and a difference of category between the source and the target
\* which one application of it does not make for any count.
SeveralApplications ==
    /\ len(source) = len(target)
    /\ count_negatives(source) # count_negatives(target)
    /\ \A k \in DOMAIN inversions :
           source # input(inversions[k]) \/ target # output(inversions[k])
    /\ \E k \in DOMAIN inversions :
           /\ polarity(inversions[k]) = required
           /\ delta(input(inversions[k]), output(inversions[k]))
                  % delta(source, target) # 0

\* C33: when the inversion selected has to be applied more than once, solve
\* returns OutsideInversions, which is not a definitive error, and no search
\* is run; a search is only ever reached with one application.
C33_OutsideInversions ==
    /\ SeveralApplications =>
           /\ pc \in {"solve", "solve_by_inversion", "done"}
           /\ pc = "done" => outcome = Err("OutsideInversions") /\ apps # 1
           /\ ~is_definitive("OutsideInversions")
           /\ dispatched = 0
           /\ tasks = 0
    /\ pc \notin {"solve", "solve_by_inversion", "done"} => apps = 1

C33_Witness ==
    /\ SeveralApplications
    /\ pc = "done"
    /\ outcome = Err("OutsideInversions")
    /\ delta(source, target) = 3
    /\ apps = 3
    /\ dispatched = 0



\* C34: in a plan, the spheres extracted at a stage are extracted at the next
\* stage too; and the remainder of a stage is what the state before the stage
\* has besides the input of the stage, without the spheres extracted at this
\* stage.
C34_ExtractedStaysExtracted ==
    (pc = "planned" /\ planned.error = "Ok") =>
        /\ \A k \in 1 .. Len(planned.stages) - 1 :
               is_subset_of(planned.stages[k].extracted,
                            planned.stages[k + 1].extracted)
        /\ \A k \in DOMAIN planned.stages :
               /\ is_subset_of(stage_input(stages(staged)[k]),
                               stage_after(staged, k - 1))
               /\ add(planned.stages[k].remainder, planned.stages[k].extracted)
                      = sub(stage_after(staged, k - 1),
                            stage_input(stages(staged)[k]))

C34_Witness ==
    /\ pc = "planned"
    /\ planned.error = "Ok"
    /\ Len(planned.stages) = 2
    /\ planned.stages[1].extracted # new
    /\ planned.stages[1].remainder # new
    /\ planned.stages[2].extracted # planned.stages[1].extracted



\* C35: solve never returns Ok with no path: what it returns when no path has
\* been found is an error, and so do solve_by_fold and every search.
C35_OkHasAPath ==
    /\ outcome.ok => Len(outcome.paths) >= 1
    /\ fold_result.ok => Len(fold_result.paths) >= 1
    /\ search_result.ok => Len(search_result.paths) >= 1
    /\ \A k \in DOMAIN task_results :
           task_results[k].ok => Len(task_results[k].paths) >= 1
    /\ pc = "done" => (outcome.ok \/ outcome.error \notin {"None", "Pending"})

C35_Witness ==
    /\ pc = "done"
    /\ dispatched > 0
    /\ outcome.ok
    /\ Len(outcome.paths) = 2
    /\ \E k \in DOMAIN task_results : ~task_results[k].ok



\* The number of inversions among the recipes of a path.
inversions_of(path) ==
    Cardinality({k \in DOMAIN path.recipes : path.recipes[k] \in {GOTZ, ELPX}})

\* C36: a path which solve returns has one inversion, and one only, when the
\* source and the target have not as many negative spheres, and none when
\* they have as many.
C36_OneInversionOrNone ==
    (pc = "done" /\ outcome.ok) =>
        \A k \in DOMAIN outcome.paths :
            inversions_of(outcome.paths[k])
                = IF count_negatives(source) # count_negatives(target)
                  THEN 1 ELSE 0

C36_Witness ==
    /\ pc = "done"
    /\ outcome.ok
    /\ dispatched > 0
    /\ count_negatives(source) # count_negatives(target)
    /\ \E k \in DOMAIN outcome.paths :
           /\ Len(outcome.paths[k].recipes) > 2
           /\ inversions_of(outcome.paths[k]) = 1



\* C37: when plan succeeds on a staged path, verify succeeds on its path, for
\* a verifier of whose recipe set all the recipes of the path are, and the
\* recipes taken one by one lead to the state to which the stages taken one
\* by one lead.
C37_PlannedPathVerifies ==
    (pc = "planned" /\ planned.error = "Ok" /\ unknown(staged.path) = {}) =>
        LET start == add(mul(staged.path.source, staged.path.count),
                         staged.path.catalysts)
        IN  /\ verify(staged.path) = "Ok"
            /\ replay(staged.path.recipes, start, 0).error = "None"
            /\ replay(staged.path.recipes, start, 0).step
                   = remainders_of(stages(staged), start, 0, <<>>).step
            /\ final(staged.path) = stage_after(staged, Len(stages(staged)))

C37_Witness ==
    /\ pc = "planned"
    /\ planned.error = "Ok"
    /\ Len(staged.path.recipes) = 2
    /\ Len(stages(staged)) = 1
    /\ staged.path.recipes[1] # staged.path.recipes[2]
    /\ verify(staged.path) = "Ok"



\* C38: of a path which verifies, parallelize of the path which parallelize
\* returned is that staged path again: the same recipes in the same order, and
\* the same stages.
C38_ParallelizeTwice ==
    (pc = "parallelized" /\ verify(staged.path) = "Ok" /\ ~parallelized.panic) =>
        LET again == parallelize(parallelized.path)
        IN  /\ ~again.panic
            /\ again.path = parallelized.path
            /\ again.stages = parallelized.stages

=============================================================================
